---- MODULE Spec2Model ----
(***************************************************************************)
(* PoreSippR-GUI: methods.main (src/methods.py): its load of the           *)
(* configuration and of the metadata, its polling loop, the external       *)
(* worker process it supervises and the two threads that read the worker's *)
(* output; the cancellation handlers of MainWindow (src/main.py); and the   *)
(* functions validate_headers, create_data_dict, create_pdf_report,        *)
(* visualize_data and MainWindow.validate_seqid_entries, each called on    *)
(* its own; the display loop of MainWindow.run_clicker; and the main loop  *)
(* of HoldPlace (src/poresippr_placeholder.py).                            *)
(*                                                                         *)
(* A result file is a pair <<iteration, name>>: the iteration number that  *)
(* r'iteration(\d+)' extracts from the file name, and the rest of the name *)
(* (its rank in the lexicographic order of the names; sorted() orders the  *)
(* files of one iteration by it).  The part of a name before the first '_' *)
(* is the SEQID of the sample the file belongs to.                         *)
(***************************************************************************)
EXTENDS Naturals, Sequences, FiniteSets, TLC

\* ------------------------------------------------------------------ bounds
\* Highest one-digit iteration number the worker writes.
MaxIter == 2
\* len(barcode_values) of the run configuration.
NumBarcodes == 2
\* How many files the worker processes write in all (a prior run may have
\* left one more in the results folder).
MaxWrites == 3
\* How many runs the GUI starts.
MaxRuns == 2
\* Most data rows of a metadata file.
MaxRows == 3

\* The iteration numbers in the file names: one-digit numbers and a two-digit
\* one, whose decimal string sorts before theirs.
Iters == (2..MaxIter) \cup {10}
\* One file name more than there are barcodes, so that an iteration can hold
\* files that are not one-per-barcode.
Names == 1..(NumBarcodes + 1)
Files == Iters \X Names

\* The SEQIDs of the run's samples and the barcodes of barcode_values.
SeqIds == 1..NumBarcodes
Barcodes == 1..NumBarcodes

VARIABLES
    \* ---- file system
    resultsDir,       \* files in csv_path (glob '*.csv')
    processedDir,     \* file names in folder_path/processed
    tables,           \* output_folder/iteration_<i>.html: the rows; <<>> = no file
    report,           \* reports/<run_name>_report.pdf: the table it was made from
    \* ---- parameters and locals of methods.main
    complete,         \* complete.value
    pc,               \* position of the thread running methods.main
    result,           \* how main ended
    snap,             \* all_csv_files / csv_files_by_iteration of this poll
    iterQueue,        \* rest of sorted_iterations
    iteration,        \* loop variable `iteration`
    current_iteration,
    all_data,         \* all_data: the records (one per file, named by its file)
    fileQueue,        \* rest of sorted(csv_files_for_iteration)
    link_dict,        \* link_dict: SEQID -> Barcode (the OLNID goes with it)
    \* ---- the files main is given
    config_file,      \* "unreadable" | "no_column" | "no_rows" | "ok"
    metadata_file,    \* [readable, columns, rows]: rows of <<SEQID, Barcode>>
    \* ---- the external worker process
    worker,           \* "none" | "running" | "zero" | "nonzero" (exit code)
    termSent,         \* SIGTERM has been sent to the worker process
    writes,           \* files written by the worker processes so far
    readers,          \* stdout_thread and stderr_thread:
                      \* "none" | "draining" | "done" (both at end of stream)
    \* ---- MainWindow
    self_complete,    \* MainWindow.complete (a plain attribute)
    run_checked,      \* run_button.isChecked()
    gui,              \* "idle" | "looping" (while not self.complete) | "closed"
    pid_store,        \* MainWindow.pid_store
    runs,             \* runs started so far (the pid of the run's worker)
    \* ---- history
    parse_count,      \* how often each file name was parsed in this run
    appends_after_cancel, \* records appended since complete.value became true
    failure,          \* the step whose exception ended main ("none": none)
    \* ---- calls of single functions: argument and result
    df,               \* create_data_dict: the DataFrame of one result file
    data_dict,        \* create_data_dict: what the call returned
    temp_html,        \* create_pdf_report: <run_name>_temp.html exists
    alive,            \* the kill loop: pids that name a live process
    kill_tried,       \* the kill loop: pids os.kill was called with
    signalled,        \* the kill loop: pids whose process got SIGTERM
    kill_raised,      \* the kill loop: an exception left the handler
    cancels,          \* the kill loop: confirmed cancellations so far
    config_dict,      \* validate_headers: the keys of its argument data_dict
    header_error,     \* validate_headers: what the call returned
    table,            \* validate_seqid_entries: the rows of the QTableWidget
    sequence_info,    \* MainWindow.sequence_info
    seqids_valid,     \* validate_seqid_entries: "none" | "True" | "False"
    cell,             \* visualize_data: a cell of all_data_df, [column, val]
    cell_style,       \* visualize_data: the style the cell was given
    image_dir,        \* HoldPlace: the images of the image directory
    working_dir,      \* HoldPlace: the images of the working directory
    image_list,       \* HoldPlace.image_list
    copied,           \* HoldPlace: the calls of copy_image so far
    hold_complete,    \* HoldPlace.complete.value
    returned_complete,\* main_loop: the local `complete` locate_image returned
    hold_pc,          \* HoldPlace.main_loop: where it stands
    pages,            \* progress_widget: its pages, [iter, rows] each
    number_of_images, \* run_clicker: number_of_images
    addQueue,         \* run_clicker: rest of images[number_of_images:]
    error_label       \* update_error_label has shown the error

fsVars == <<resultsDir, processedDir, tables, report>>
mainVars == <<pc, result, snap, iterQueue, iteration, current_iteration,
              all_data, fileQueue>>
workerVars == <<worker, termSent, writes, readers>>
loadVars == <<config_file, metadata_file, link_dict>>
guiVars == <<self_complete, run_checked, gui, pid_store, runs>>
histVars == <<parse_count, appends_after_cancel, failure>>
extractVars == <<df, data_dict>>
pdfVars == <<temp_html>>
killVars == <<alive, kill_tried, signalled, kill_raised, cancels>>
headerVars == <<config_dict, header_error>>
seqidVars == <<table, sequence_info, seqids_valid>>
styleVars == <<cell, cell_style>>
holdVars == <<image_dir, working_dir, image_list, copied, hold_complete,
              returned_complete, hold_pc>>
callVars == <<extractVars, pdfVars, killVars, headerVars, seqidVars,
             styleVars,
             holdVars>>
displayVars == <<pages, number_of_images, addQueue, error_label>>
vars == <<fsVars, mainVars, loadVars, workerVars, guiVars, histVars, complete,
          callVars, displayVars>>

\* ----------------------------------------------------------------- helpers
NoReport == [iter |-> 0, rows |-> <<>>]

\* csv_files_by_iteration[i] over a directory listing S
FilesOf(S, i) == {f \in S : f[1] = i}

RECURSIVE ListedFiles(_)
\* csv_files_for_iteration as it is, in the order glob listed the files (here
\* the directory lists them in descending name order)
ListedFiles(S) ==
    IF S = {} THEN <<>>
    ELSE LET f == CHOOSE x \in S : \A y \in S : y[2] <= x[2]
         IN  <<f>> \o ListedFiles(S \ {f})

RECURSIVE SortedFiles(_)
\* sorted(csv_files_for_iteration): ascending file name
SortedFiles(S) ==
    IF S = {} THEN <<>>
    ELSE LET f == CHOOSE x \in S : \A y \in S : x[2] <= y[2]
         IN  <<f>> \o SortedFiles(S \ {f})

RECURSIVE SortedIterationsAsText(_)
\* the keys sorted as the strings of digits that r'iteration(\d+)' finds,
\* that is without the int() of line 792
SortedIterationsAsText(K) ==
    LET RECURSIVE Digits(_)
        Digits(n) ==
            IF n < 10 THEN <<n>> ELSE Append(Digits(n \div 10), n % 10)
        RECURSIVE TextLess(_, _)
        TextLess(a, b) ==
            IF a = <<>> THEN b # <<>>
            ELSE IF b = <<>> THEN FALSE
            ELSE IF Head(a) # Head(b) THEN Head(a) < Head(b)
            ELSE TextLess(Tail(a), Tail(b))
    IN  IF K = {} THEN <<>>
        ELSE LET i == CHOOSE x \in K :
                         \A y \in K : x = y \/ TextLess(Digits(x), Digits(y))
             IN  <<i>> \o SortedIterationsAsText(K \ {i})

RECURSIVE SortedIterations(_)
\* sorted(csv_files_by_iteration.keys()): ascending integers
SortedIterations(K) ==
    IF K = {} THEN <<>>
    ELSE LET i == CHOOSE x \in K : \A y \in K : x <= y
         IN  <<i>> \o SortedIterations(K \ {i})

DigitChars == <<"0", "1", "2", "3", "4", "5", "6", "7", "8", "9">>
DigitValue(c) == CHOOSE d \in 0..9 : DigitChars[d + 1] = c

RECURSIVE IntOf(_)
\* the number a string of digits writes
IntOf(s) ==
    IF s = <<>> THEN 0
    ELSE IntOf(SubSeq(s, 1, Len(s) - 1)) * 10 + DigitValue(s[Len(s)])

RECURSIVE IntText(_)
\* str(n) of an int that is not negative
IntText(n) ==
    IF n < 10 THEN <<DigitChars[n + 1]>>
    ELSE IntText(n \div 10) \o <<DigitChars[(n % 10) + 1]>>

RECURSIVE TextBefore(_, _)
\* 'iteration_<a>.html' < 'iteration_<b>.html' as str, for strings of digits
\* a and b: the '.' that follows the digits is smaller than every digit
TextBefore(a, b) ==
    IF a = <<>> THEN b # <<>>
    ELSE IF b = <<>> THEN FALSE
    ELSE IF Head(a) # Head(b) THEN DigitValue(Head(a)) < DigitValue(Head(b))
    ELSE TextBefore(Tail(a), Tail(b))

RECURSIVE SortedNames(_)
\* sorted() of the names iteration_<i>.html, i in K
SortedNames(K) ==
    IF K = {} THEN <<>>
    ELSE LET i == CHOOSE x \in K :
                     \A y \in K : x = y \/ TextBefore(IntText(x), IntText(y))
         IN  <<i>> \o SortedNames(K \ {i})

\* MainWindow.get_images(path): sorted(glob(os.path.join(path, '*.html'))),
\* each file named by its iteration
get_images(T) == SortedNames({i \in DOMAIN T : T[i] # <<>>})

RECURSIVE AddedPages(_, _)
\* add_html_to_gui for each path of a list: a page with what the file holds
AddedPages(T, paths) ==
    IF paths = <<>> THEN <<>>
    ELSE <<[iter |-> Head(paths), rows |-> T[Head(paths)]]>>
             \o AddedPages(T, Tail(paths))

Range(s) == {s[k] : k \in 1..Len(s)}

Stopped == pc \in {"returned", "raised"}

\* os.path.basename(csv_file).split('_')[0]: the SEQID a file name starts
\* with.  The first two names are two files of the first sample; every other
\* sample has one name.
SeqIdOf(f) == IF f[2] = 1 THEN 1 ELSE f[2] - 1

\* ------------------------------------------------------ the files main reads
ConfigFiles == {"unreadable", "no_column", "no_rows", "ok"}

Rows == SeqIds \X Barcodes
Unreadable == [readable |-> FALSE, columns |-> FALSE, rows |-> <<>>]
\* every metadata file of at most MaxRows data rows
MetadataFiles ==
    {Unreadable} \cup
    {[readable |-> TRUE, columns |-> c, rows |-> r] :
        c \in BOOLEAN, r \in UNION {[1..n -> Rows] : n \in 0..MaxRows}}

\* one row per sample, sample k under barcode k
FullMetadata ==
    [readable |-> TRUE, columns |-> TRUE,
     rows |-> [k \in 1..NumBarcodes |-> <<k, k>>]]
\* the same without the row of the last sample
MissingLast ==
    [readable |-> TRUE, columns |-> TRUE,
     rows |-> [k \in 1..(NumBarcodes - 1) |-> <<k, k>>]]
\* the header line alone
NoRows == [FullMetadata EXCEPT !.rows = <<>>]
\* the same without the SEQID, OLNID or Barcode column
NoColumn == [FullMetadata EXCEPT !.columns = FALSE]

\* the inputs of the runs of Spec: <<config_file, metadata_file>>
RunInputs ==
    {<<"ok", FullMetadata>>, <<"no_rows", FullMetadata>>,
     <<"unreadable", FullMetadata>>, <<"no_column", FullMetadata>>,
     <<"ok", Unreadable>>, <<"ok", NoColumn>>}

\* lines 691-695: open(config_file) raises, or row['barcode_values'] raises
\* KeyError on the first data row
ConfigReadFailsNever == FALSE
ConfigReadFails == config_file \in {"unreadable", "no_column"}

\* lines 698-709: open(metadata_file) raises, or row['SEQID'], row['OLNID']
\* or row['Barcode'] raises KeyError on the first data row
MetadataReadFails ==
    \/ ~metadata_file.readable
    \/ metadata_file.rows # <<>> /\ ~metadata_file.columns

RECURSIVE BuildLinkDict(_)
\* lines 697-709: link_dict[row['SEQID']] = {...} for every row in file order;
\* a later row of the same SEQID replaces the earlier one
BuildLinkDict(rows) ==
    IF rows = <<>> THEN <<>>
    ELSE LET d == BuildLinkDict(SubSeq(rows, 1, Len(rows) - 1))
             r == rows[Len(rows)]
         IN  [k \in (DOMAIN d) \cup {r[1]} |->
                 IF k = r[1] THEN r[2] ELSE d[k]]

\* line 695 has run at least once: barcode_values is bound
BarcodeValuesBound == config_file # "no_rows"

\* line 422, metadata_dict[barcode_name]: the key is in link_dict
HasMetadataAlways(f) == TRUE
HasMetadata(f) == SeqIdOf(f) \in DOMAIN link_dict

\* ------------------------------------------------- conditions of the code
\* `if complete.value:` (top of the while loop and top of the for loop)
CancelRequestedNever == FALSE
CancelRequested == complete

\* `worker_process.poll() is not None`
WorkerExited == worker # "running"

\* `if len(barcodes_for_iteration) < len(barcode_values): continue`
IterationReadyOneShort(S, i) ==
    ~(Cardinality(FilesOf(S, i)) < NumBarcodes - 1)
IterationReady(S, i) == ~(Cardinality(FilesOf(S, i)) < NumBarcodes)

\* `if iteration != current_iteration:` (line 820), before `all_data = []`
IterationChangedNever(i) == FALSE
IterationChanged(i) == i # current_iteration

\* `os.path.exists(os.path.join(processed_folder, os.path.basename(csv_file)))`
AlreadyProcessedNever(f) == FALSE
AlreadyProcessed(f) == f \in processedDir

\* worker_process.terminate() / os.kill(pid, SIGTERM): the signal reaches a
\* process that is still running; the call does not wait for it to exit
TerminateSent == termSent \/ worker = "running"

\* `if <cond>: break` at the top of the while loop (lines 776-778, 781-782):
\* the loop is left exactly when the condition was observed
BreakNever(cond) == FALSE
Break(cond) == cond

\* The locals of one poll (lines 785-810) are reassigned before they are read
\* again, and are gone when main ends: the model forgets them when the for
\* loop over the iterations is left.
pollLocals == <<snap, iterQueue, iteration, current_iteration, all_data,
                fileQueue>>
ForgetPoll ==
    /\ snap' = {}
    /\ iterQueue' = <<>>
    /\ iteration' = 0
    /\ current_iteration' = 0
    /\ all_data' = <<>>
    /\ fileQueue' = <<>>

Bump(n) == IF n < 2 THEN n + 1 ELSE 2

\* -------------------------------------------------------- create_data_dict
\* Most rows of the DataFrame of one result file, and most reads mapped to
\* one row.
MaxGenes == 2
MaxReads == 2

\* A gene name is the sequence of its characters.
\* str.lower() on the letters that the names and the patterns hold
Lower(c) ==
    CASE c = "A" -> "a" [] c = "C" -> "c" [] c = "H" -> "h"
      [] c = "O" -> "o" [] c = "R" -> "r" [] c = "S" -> "s"
      [] OTHER -> c

\* the pattern p matches s at position k (fold: case=False)
MatchAt(s, p, k, fold) ==
    /\ k + Len(p) - 1 <= Len(s)
    /\ \A j \in 1..Len(p) :
          IF fold THEN Lower(s[k + j - 1]) = Lower(p[j])
          ELSE s[k + j - 1] = p[j]

\* Series.str.contains(p) and Series.str.contains(p, case=False) on one name
Contains(s, p) == \E k \in 1..Len(s) : MatchAt(s, p, k, FALSE)
ContainsAnyCase(s, p) == \E k \in 1..Len(s) : MatchAt(s, p, k, TRUE)

IsDigit(c) == c \in {"0", "1", "2", "3", "4", "5", "6", "7", "8", "9"}

\* NaN of a column that str.extract fills
NaN == <<>>

\* Series.str.extract(r'<p>.*?(\d+)') on one name: the first run of digits
\* after the first occurrence of p, NaN without one
Extract(s, p) ==
    LET starts == {k \in 1..Len(s) : MatchAt(s, p, k, FALSE)}
    IN  IF starts = {} THEN NaN
        ELSE LET k == CHOOSE x \in starts : \A y \in starts : x <= y
                 ds == {x \in (k + Len(p))..Len(s) : IsDigit(s[x])}
             IN  IF ds = {} THEN NaN
                 ELSE LET d == CHOOSE x \in ds : \A y \in ds : x <= y
                          es == {x \in d..Len(s) :
                                    \A j \in d..x : IsDigit(s[j])}
                          e == CHOOSE x \in es : \A y \in es : y <= x
                      IN  SubSeq(s, d, e)

\* s.split(c)[0] and what follows the first c in s
BeforeFirst(s, c) ==
    LET at == {k \in 1..Len(s) : s[k] = c}
    IN  IF at = {} THEN s
        ELSE SubSeq(s, 1, (CHOOSE x \in at : \A y \in at : x <= y) - 1)
AfterFirst(s, c) ==
    LET at == {k \in 1..Len(s) : s[k] = c}
    IN  SubSeq(s, (CHOOSE x \in at : \A y \in at : x <= y) + 1, Len(s))

\* gene_name.split('/')[1].split('-')[0] of a name that holds a '/'
AntigenLabel(s) == BeforeFirst(BeforeFirst(AfterFirst(s, "/"), "/"), "-")

\* the patterns of lines 334-410
PatO == <<"O", "/">>
PatH == <<"H", "/">>
PatStx == <<"S", "t", "x">>
PatStx1 == <<"S", "t", "x", "1">>
PatStx2 == <<"S", "t", "x", "2">>
PatEae == <<"e", "a", "e">>
PatEhxA == <<"e", "h", "x", "A">>
PatAggR == <<"a", "g", "g", "R">>
PatAaiC == <<"a", "a", "i", "C">>
PatUidA == <<"u", "i", "d", "A">>
PatHash == <<"#">>
PatCoverage == <<"g", "e", "n", "o", "m", "e", "_",
                 "c", "o", "v", "e", "r", "a", "g", "e">>

\* the alternatives of 'O/|H/|Stx|eae|ehxA|aggR|aaiC|#' (line 399)
GdcsExcluded == {PatO, PatH, PatStx, PatEae, PatEhxA, PatAggR, PatAaiC,
                 PatHash}

\* The gene names of the result files: two O antigens, an H antigen, toxin
\* genes in either case, the five virulence markers, the coverage row with
\* and without a leading '#', and a conserved gene.
GeneNames ==
    {<<"O", "/", "O", "2", "6", "-", "w">>,
     <<"O", "/", "O", "1", "5", "7">>,
     <<"H", "/", "H", "7">>,
     <<"S", "t", "x", "1", "a">>,
     <<"s", "t", "x", "2">>,
     PatEae, PatEhxA, PatAggR, PatAaiC, PatUidA,
     PatCoverage, PatHash \o PatCoverage,
     <<"a", "d", "k">>}

\* a row of the DataFrame: gene_name and number_of_reads_mapped
GeneRows == [gene_name : GeneNames, number_of_reads_mapped : 0..MaxReads]

\* The DataFrame that pd.read_csv made of one result file.  text: the file
\* holds a value with the 'X' suffix, so that number_of_reads_mapped is a
\* column of strings; without one pandas reads a column of numbers.
DataFrames ==
    [text : BOOLEAN, rows : UNION {[1..n -> GeneRows] : n \in 0..MaxGenes}]

RECURSIVE SumReads(_)
\* frame['number_of_reads_mapped'].sum() over rows
SumReads(rows) ==
    IF rows = <<>> THEN 0
    ELSE Head(rows).number_of_reads_mapped + SumReads(Tail(rows))

\* df[df['gene_name'].str.contains(p)] and the same with case=False
RowsWith(rows, p) ==
    LET Test(r) == Contains(r.gene_name, p) IN SelectSeq(rows, Test)
RowsWithAnyCase(rows, p) ==
    LET Test(r) == ContainsAnyCase(r.gene_name, p) IN SelectSeq(rows, Test)

\* `> 1`: what lines 345-404 ask of a total or of a row
SupportedByOne(n) == n > 0
Supported(n) == n > 1

\* df.groupby(column)['number_of_reads_mapped'].sum(): <<key, total>> for
\* every key in the column; rows whose key is NaN are left out
GroupTotals(rows, column) ==
    LET keys == Range(column) \ {NaN}
        Of(k) == [j \in 1..Len(rows) |->
                     IF column[j] = k THEN rows[j]
                     ELSE [rows[j] EXCEPT !.number_of_reads_mapped = 0]]
    IN  {<<k, SumReads(Of(k))>> : k \in keys}

RECURSIVE SumTotals(_)
\* grouped['number_of_reads_mapped'].sum()
SumTotals(G) ==
    IF G = {} THEN 0
    ELSE LET g == CHOOSE x \in G : TRUE IN g[2] + SumTotals(G \ {g})

\* grouped[grouped['number_of_reads_mapped'] > 1]
GroupsWithReads(G) == {g \in G : Supported(g[2])}
\* frame[frame['number_of_reads_mapped'] > 1]
RowsWithReads(rows) ==
    LET Test(r) == Supported(r.number_of_reads_mapped)
    IN  SelectSeq(rows, Test)

\* a field of the record: '-', a number, or '<label> (<number>)'
Dash == [dash |-> TRUE, label |-> <<>>, n |-> 0]
Number(n) == [dash |-> FALSE, label |-> <<>>, n |-> n]
Call(label, n) == [dash |-> FALSE, label |-> label, n |-> n]

\* lines 334-345 and 423-427 (O), 348-359 and 428-432 (H)
SerotypeField(rows, p) ==
    LET typed == RowsWith(rows, p)
        type == [j \in 1..Len(rows) |-> Extract(rows[j].gene_name, p)]
        with_reads == GroupsWithReads(GroupTotals(rows, type))
    IN  IF typed # <<>> /\ SumTotals(with_reads) > 0
        THEN Call(AntigenLabel(typed[1].gene_name), SumTotals(with_reads))
        ELSE Dash

\* lines 362-373 and 433-440
ToxinField(rows, p) ==
    LET genes == RowsWithAnyCase(rows, p)
        gene_name == [j \in 1..Len(genes) |-> genes[j].gene_name]
        with_reads == GroupsWithReads(GroupTotals(genes, gene_name))
    IN  IF genes # <<>> /\ SumTotals(with_reads) > 0
        THEN Number(SumTotals(with_reads))
        ELSE Dash

\* lines 376-395 and 441-460
VirulenceField(rows, p) ==
    LET genes == RowsWith(rows, p)
        with_reads == RowsWithReads(genes)
    IN  IF genes # <<>> /\ SumReads(with_reads) > 0
        THEN Number(SumReads(with_reads))
        ELSE Dash

\* lines 398-404: gdcs_genes_with_reads
GdcsGenesWithReads(rows) ==
    LET Test(r) == \A p \in GdcsExcluded : ~ContainsAnyCase(r.gene_name, p)
    IN  RowsWithReads(SelectSeq(rows, Test))

\* lines 410-417
CoverageValue(rows) ==
    LET coverage == RowsWith(rows, PatCoverage)
    IN  IF coverage # <<>> THEN coverage[1].number_of_reads_mapped ELSE 0

NotCalled == [status |-> "none"]
\* line 329: .str on a column of numbers raises AttributeError
Raised == [status |-> "raised"]

\* create_data_dict(df, csv_file, metadata_dict), lines 327-463, for a file
\* whose SEQID is a key of metadata_dict
create_data_dict(d) ==
    IF ~d.text /\ d.rows # <<>> THEN Raised
    ELSE [status |-> "returned",
          O_Type |-> SerotypeField(d.rows, PatO),
          H_Type |-> SerotypeField(d.rows, PatH),
          stx1 |-> ToxinField(d.rows, PatStx1),
          stx2 |-> ToxinField(d.rows, PatStx2),
          eae |-> VirulenceField(d.rows, PatEae),
          hylA |-> VirulenceField(d.rows, PatEhxA),
          aggR |-> VirulenceField(d.rows, PatAggR),
          aaiC |-> VirulenceField(d.rows, PatAaiC),
          uidA |-> VirulenceField(d.rows, PatUidA),
          GDCS |-> Len(GdcsGenesWithReads(d.rows)),
          Coverage |-> CoverageValue(d.rows)]

\* no single function is being called
ExtractIdle ==
    /\ df = [text |-> TRUE, rows |-> <<>>]
    /\ data_dict = NotCalled
PdfIdle == temp_html = FALSE
KillIdle ==
    /\ alive = {}
    /\ kill_tried = {}
    /\ signalled = {}
    /\ kill_raised = FALSE
    /\ cancels = 0
HeadersIdle ==
    /\ config_dict = {}
    /\ header_error = [status |-> "none"]
SeqidIdle ==
    /\ table = <<>>
    /\ sequence_info = <<>>
    /\ seqids_valid = "none"
StyleIdle ==
    /\ cell = [column |-> "SEQID", val |-> [kind |-> "str", text |-> <<>>, n |-> 0]]
    /\ cell_style = NotCalled
HoldIdle ==
    /\ image_dir = {}
    /\ working_dir = {}
    /\ image_list = <<>>
    /\ copied = <<>>
    /\ hold_complete = FALSE
    /\ returned_complete = FALSE
    /\ hold_pc = "idle"
CallIdle ==
    /\ ExtractIdle
    /\ PdfIdle
    /\ KillIdle
    /\ HeadersIdle
    /\ SeqidIdle
    /\ StyleIdle
    /\ HoldIdle

\* ------------------------------------------------------------------- Init
TypeOK ==
    /\ resultsDir \subseteq Files
    /\ processedDir \subseteq Files
    /\ \A i \in Iters : Range(tables[i]) \subseteq Files
    /\ complete \in BOOLEAN
    /\ pc \in {"idle", "init", "sleep", "poll", "iter", "file", "render",
               "move", "pdf", "convert", "wcheck", "returned", "raised",
               "killed"}
    /\ result \in {"none", "cancelled", "worker_exit", "subprocess_failed",
                   "error"}
    /\ worker \in {"none", "running", "zero", "nonzero"}
    /\ writes \in 0..MaxWrites
    /\ iteration \in Iters \cup {0}
    /\ current_iteration \in Iters \cup {0}
    /\ config_file \in ConfigFiles
    /\ metadata_file \in MetadataFiles
    /\ DOMAIN link_dict \subseteq SeqIds
    /\ readers \in {"none", "draining", "done"}
    /\ failure \in {"none", "config", "metadata", "unbound", "parse",
                    "extract", "lookup", "render", "move", "pdf"}

\* A prior run may have left a file in the results folder, in the processed
\* folder, and a table in the output folder.
Leftover == {{}, {<<2, 1>>}}

InitFolders ==
    /\ resultsDir \in Leftover
    /\ processedDir \in Leftover
    /\ tables \in {[i \in Iters |-> <<>>],
                   [i \in Iters |-> IF i = 2 THEN <<(<<2, 1>>)>> ELSE <<>>]}
    /\ report = NoReport

\* no poll has begun and no worker has been launched
InitMain ==
    /\ complete = FALSE
    /\ result = "none"
    /\ snap = {}
    /\ iterQueue = <<>>
    /\ iteration = 0
    /\ current_iteration = 0
    /\ all_data = <<>>
    /\ fileQueue = <<>>
    /\ worker = "none"
    /\ termSent = FALSE
    /\ writes = 0
    /\ parse_count = [f \in Files |-> 0]
    /\ appends_after_cancel = 0
    /\ link_dict = <<>>
    /\ readers = "none"
    /\ failure = "none"

\* MainWindow.__init__, lines 466-509
\* no page is shown
DisplayIdle ==
    /\ pages = <<>>
    /\ number_of_images = 0
    /\ addQueue = <<>>
    /\ error_label = FALSE

InitWindow ==
    /\ self_complete = FALSE
    /\ run_checked = FALSE
    /\ gui = "idle"
    /\ pid_store = <<>>
    /\ DisplayIdle

InitState == InitMain /\ InitWindow

InitCommon == InitFolders /\ InitState

\* methods.main has just been called (by __main__ or by Worker.run)
Init ==
    /\ InitCommon
    /\ CallIdle
    /\ pc = "init"
    /\ runs = 1
    /\ \E inp \in RunInputs :
          /\ config_file = inp[1]
          /\ metadata_file = inp[2]

\* methods.main has just been called with a metadata file that has a row for
\* every sample, for every sample but the last, or for none
LookupInit ==
    /\ InitCommon
    /\ CallIdle
    /\ pc = "init"
    /\ runs = 1
    /\ config_file = "ok"
    /\ metadata_file \in {FullMetadata, MissingLast, NoRows}

\* methods.main has just been called with any configuration and metadata file
LoadInit ==
    /\ InitCommon
    /\ CallIdle
    /\ pc = "init"
    /\ runs = 1
    /\ config_file \in ConfigFiles
    /\ metadata_file \in MetadataFiles

\* ------------------------------------------------------------ methods.main
\* lines 691-768: read the configuration and the metadata, wipe and recreate
\* output_folder and processed_folder, launch the worker, start the two
\* reader threads, store the worker's pid
MainInit ==
    /\ pc = "init"
    /\ IF ConfigReadFails \/ MetadataReadFails
       THEN \* the exception leaves main at lines 691-709
            /\ failure' = IF ConfigReadFails THEN "config" ELSE "metadata"
            /\ pc' = "raised"
            /\ result' = "error"
            /\ UNCHANGED <<link_dict, tables, processedDir, worker, termSent,
                           readers, pid_store, parse_count,
                           appends_after_cancel>>
       ELSE /\ link_dict' = BuildLinkDict(metadata_file.rows)
            /\ tables' = [i \in Iters |-> <<>>]
            /\ processedDir' = {}
            /\ worker' = "running"
            /\ termSent' = FALSE
            /\ readers' = "draining"
            /\ pid_store' = Append(pid_store, runs)
            /\ parse_count' = [f \in Files |-> 0]
            /\ appends_after_cancel' = 0
            /\ failure' = "none"
            /\ result' = "none"
            /\ pc' = "sleep"
    /\ UNCHANGED <<resultsDir, report, complete, pollLocals, writes,
                   self_complete, run_checked, gui, runs, config_file,
                   metadata_file>>
    /\ UNCHANGED callVars
    /\ UNCHANGED displayVars

\* lines 770-778: sleep(1); if complete.value: terminate, break
PollCheckComplete ==
    /\ pc = "sleep"
    /\ IF CancelRequested
       THEN /\ termSent' = TerminateSent
            /\ result' = "cancelled"
       ELSE UNCHANGED <<termSent, result>>
    /\ pc' = IF Break(CancelRequested) THEN "returned" ELSE "poll"
    /\ UNCHANGED <<fsVars, complete, pollLocals, loadVars, worker, writes,
                   readers, guiVars, histVars>>
    /\ UNCHANGED callVars
    /\ UNCHANGED displayVars

\* lines 780-800: if the worker has exited, break; else glob the results
\* folder, group by iteration, sort the iterations, reset the accumulators
PollCheckWorker ==
    /\ pc = "poll"
    /\ result' = IF WorkerExited THEN "worker_exit" ELSE result
    /\ IF Break(WorkerExited)
       THEN /\ pc' = "returned"
            /\ UNCHANGED <<snap, iterQueue, current_iteration, all_data>>
       ELSE /\ snap' = resultsDir
            /\ iterQueue' = SortedIterations({f[1] : f \in resultsDir})
            /\ current_iteration' = 0
            /\ all_data' = <<>>
            /\ pc' = "iter"
    /\ UNCHANGED <<fsVars, complete, iteration, fileQueue, loadVars,
                   workerVars, guiVars, histVars>>
    /\ UNCHANGED callVars
    /\ UNCHANGED displayVars

\* lines 802-836: top of `for iteration in sorted_iterations`
IterTop ==
    /\ pc = "iter"
    /\ IF iterQueue = <<>>
       THEN \* the for loop is over: back to the while loop
            /\ pc' = "sleep"
            /\ ForgetPoll
            /\ UNCHANGED <<termSent, result, failure>>
       ELSE LET i == Head(iterQueue) IN
            IF CancelRequested
            THEN \* terminate; break (out of the for loop only)
                 /\ termSent' = TerminateSent
                 /\ pc' = "sleep"
                 /\ ForgetPoll
                 /\ UNCHANGED <<result, failure>>
            ELSE IF ~BarcodeValuesBound
            THEN \* line 817: len(barcode_values) raises NameError
                 /\ pc' = "raised"
                 /\ result' = "error"
                 /\ failure' = "unbound"
                 /\ ForgetPoll
                 /\ UNCHANGED termSent
            ELSE IF ~IterationReady(snap, i)
            THEN \* continue
                 /\ iteration' = i
                 /\ iterQueue' = Tail(iterQueue)
                 /\ pc' = "iter"
                 /\ UNCHANGED <<snap, current_iteration, all_data, fileQueue,
                                termSent, result, failure>>
            ELSE /\ iteration' = i
                 /\ iterQueue' = Tail(iterQueue)
                 /\ all_data' = IF IterationChanged(i) THEN <<>>
                                ELSE all_data
                 /\ fileQueue' = SortedFiles(FilesOf(snap, i))
                 /\ pc' = "file"
                 /\ UNCHANGED <<snap, current_iteration, termSent, result,
                                failure>>
    /\ UNCHANGED <<fsVars, complete, loadVars, worker, writes, readers,
                   guiVars, parse_count, appends_after_cancel>>
    /\ UNCHANGED callVars
    /\ UNCHANGED displayVars

\* lines 838-853: top of `for csv_file in sorted(...)`: skip a processed file,
\* else parse it, build its record (create_data_dict raises KeyError at line
\* 422 if link_dict has no entry for the file's SEQID) and append the record
\* to all_data
FileTop ==
    /\ pc = "file"
    /\ IF fileQueue = <<>>
       THEN /\ pc' = "pdf"
            /\ UNCHANGED <<fileQueue, all_data, histVars, result, snap,
                           iterQueue, iteration, current_iteration>>
       ELSE LET f == Head(fileQueue) IN
            IF AlreadyProcessed(f)
            THEN /\ fileQueue' = Tail(fileQueue)
                 /\ pc' = "file"
                 /\ UNCHANGED <<all_data, histVars, result, snap, iterQueue,
                                iteration, current_iteration>>
            ELSE IF ~HasMetadata(f)
            THEN /\ parse_count' = [parse_count EXCEPT ![f] = Bump(@)]
                 /\ pc' = "raised"
                 /\ result' = "error"
                 /\ failure' = "lookup"
                 /\ ForgetPoll
                 /\ UNCHANGED appends_after_cancel
            ELSE /\ all_data' = Append(all_data, f)
                 /\ parse_count' = [parse_count EXCEPT ![f] = Bump(@)]
                 /\ appends_after_cancel' =
                        IF complete THEN Bump(appends_after_cancel)
                        ELSE appends_after_cancel
                 /\ pc' = "render"
                 /\ UNCHANGED <<fileQueue, failure, result, snap, iterQueue,
                                iteration, current_iteration>>
    /\ UNCHANGED <<fsVars, complete, loadVars, workerVars, guiVars>>
    /\ UNCHANGED callVars
    /\ UNCHANGED displayVars

\* lines 855-864: visualize_data and remove_index_from_html write
\* iteration_<iteration>.html from all_data
RenderTable ==
    /\ pc = "render"
    /\ tables' = [tables EXCEPT ![iteration] = all_data]
    /\ pc' = "move"
    /\ UNCHANGED <<resultsDir, processedDir, report, complete, result, snap,
                   iterQueue, iteration, current_iteration, all_data,
                   fileQueue, loadVars, workerVars, guiVars, histVars>>
    /\ UNCHANGED callVars
    /\ UNCHANGED displayVars

\* line 867: shutil.move(csv_file, processed_folder)
MoveFile ==
    /\ pc = "move"
    /\ LET f == Head(fileQueue) IN
       /\ resultsDir' = resultsDir \ {f}
       /\ processedDir' = processedDir \cup {f}
    /\ fileQueue' = Tail(fileQueue)
    /\ pc' = "file"
    /\ UNCHANGED <<tables, report, complete, result, snap, iterQueue,
                   iteration, current_iteration, all_data, loadVars,
                   workerVars, guiVars, histVars>>
    /\ UNCHANGED callVars
    /\ UNCHANGED displayVars

\* lines 869-880: create_pdf_report (lines 613-652) reads the table file and
\* runs the converter on it; the converter writes the PDF, or it exits with a
\* non-zero code, which lines 648-649 print and swallow
CreatePdf ==
    /\ pc = "pdf"
    /\ IF tables[iteration] = <<>>
       THEN \* open(html_file_path) raises FileNotFoundError
            /\ pc' = "raised"
            /\ result' = "error"
            /\ failure' = "pdf"
            /\ ForgetPoll
            /\ UNCHANGED report
       ELSE /\ \/ report' = [iter |-> iteration, rows |-> tables[iteration]]
               \/ UNCHANGED report
            /\ current_iteration' = iteration
            /\ pc' = "wcheck"
            /\ UNCHANGED <<result, snap, iterQueue, iteration, all_data,
                           fileQueue, failure>>
    /\ UNCHANGED <<resultsDir, processedDir, tables, complete, loadVars,
                   workerVars, guiVars, parse_count, appends_after_cancel>>
    /\ UNCHANGED callVars
    /\ UNCHANGED displayVars

\* lines 882-897: after a processed iteration, if the worker has exited: join
\* the reader threads, raise on a non-zero return code, else break the for loop
WorkerCheck ==
    /\ pc = "wcheck"
    /\ IF WorkerExited
       THEN \* lines 886-887: both joins return when the readers are done
            /\ readers' = "done"
            /\ IF worker # "zero"
               THEN /\ pc' = "raised"
                    /\ result' = "subprocess_failed"
               ELSE \* break (out of the for loop only)
                    /\ pc' = "sleep"
                    /\ UNCHANGED result
            /\ ForgetPoll
       ELSE /\ pc' = "iter"
            /\ UNCHANGED <<result, pollLocals, readers>>
    /\ UNCHANGED <<fsVars, complete, loadVars, worker, termSent, writes,
                   guiVars, histVars>>
    /\ UNCHANGED callVars
    /\ UNCHANGED displayVars

\* an exception in parse_csv_file / create_data_dict (lines 847-852),
\* visualize_data / remove_index_from_html (856-864), shutil.move (867) or
\* create_pdf_report (870-877): main has no handler, the exception leaves it
ProcessingFails ==
    /\ \/ /\ pc = "file"
          /\ fileQueue # <<>>
          /\ ~AlreadyProcessed(Head(fileQueue))
          /\ failure' \in {"parse", "extract"}
       \/ /\ pc \in {"render", "move", "pdf"}
          /\ failure' = pc
    /\ pc' = "raised"
    /\ result' = "error"
    /\ ForgetPoll
    /\ UNCHANGED <<fsVars, complete, loadVars, workerVars, guiVars,
                   parse_count, appends_after_cancel>>
    /\ UNCHANGED callVars
    /\ UNCHANGED displayVars

MainStep ==
    \/ MainInit
    \/ PollCheckComplete
    \/ PollCheckWorker
    \/ IterTop
    \/ FileTop
    \/ RenderTable
    \/ MoveFile
    \/ CreatePdf
    \/ WorkerCheck

\* ------------------------------------------------------------ environment
\* the worker process writes one result file into csv_path (a file written
\* after main has ended is seen by the next run at the earliest, as is a file
\* that run's worker writes before the first poll)
WorkerWrite ==
    /\ worker = "running"
    /\ pc \notin {"returned", "raised", "killed"}
    /\ writes < MaxWrites
    /\ \E f \in Files \ resultsDir :
          resultsDir' = resultsDir \cup {f}
    /\ writes' = writes + 1
    /\ UNCHANGED <<processedDir, tables, report, complete, mainVars, loadVars,
                   worker, termSent, readers, guiVars, histVars>>
    /\ UNCHANGED callVars
    /\ UNCHANGED displayVars

\* the worker process exits, with code 0 or not
WorkerExit ==
    /\ worker = "running"
    /\ worker' \in {"zero", "nonzero"}
    /\ UNCHANGED <<fsVars, complete, mainVars, loadVars, termSent, writes,
                   readers, guiVars, histVars>>
    /\ UNCHANGED callVars
    /\ UNCHANGED displayVars

\* handle_output, lines 655-663: after the worker's exit has closed its ends
\* of the pipes, both readers drain what is buffered and reach end of stream.
\* Main looks at the worker at line 781 and at line 883, and line 886 waits
\* for the readers: an end of stream at any earlier moment is represented by
\* the one just before line 781.
ReadersFinish ==
    /\ worker \in {"zero", "nonzero"}
    /\ pc = "poll"
    /\ readers = "draining"
    /\ readers' = "done"
    /\ UNCHANGED <<fsVars, complete, mainVars, loadVars, worker, termSent,
                   writes, guiVars, histVars>>
    /\ UNCHANGED callVars
    /\ UNCHANGED displayVars

\* the caller that holds the multiprocessing.Value sets complete.value
ExternalCancel ==
    /\ pc \notin {"idle", "returned", "raised", "killed"}
    /\ ~complete
    /\ complete' = TRUE
    /\ UNCHANGED <<fsVars, mainVars, loadVars, workerVars, guiVars, histVars>>
    /\ UNCHANGED callVars
    /\ UNCHANGED displayVars

Environment == WorkerWrite \/ WorkerExit \/ ReadersFinish

Next ==
    \/ MainStep
    \/ ProcessingFails
    \/ Environment
    \/ ExternalCancel

Spec == Init /\ [][Next]_vars

\* main's thread keeps running: every enabled step of main is taken
FairSpec == Spec /\ WF_vars(MainStep)

\* the run over metadata files that lack rows
LookupSpec == LookupInit /\ [][Next]_vars

\* the load of the configuration and of the metadata alone, over every file
LoadSpec == LoadInit /\ [][MainInit]_vars

\* -------------------------------------------------------------- MainWindow
\* MainWindow.__init__ has run (lines 466-509): no run has been started
GuiInit ==
    /\ InitCommon
    /\ CallIdle
    /\ pc = "idle"
    /\ runs = 0
    /\ config_file = "ok"
    /\ metadata_file = FullMetadata

Running == pc \in {"init", "sleep", "poll", "iter", "file", "render", "move",
                   "pdf", "wcheck"}

\* QThread.terminate() on the Worker thread: main stops wherever it is
ThreadTerminated == IF Running THEN "killed" ELSE pc

\* `for pid in self.pid_store: os.kill(pid, signal.SIGTERM)`
KillStored ==
    IF runs \in Range(pid_store) /\ worker = "running" THEN TRUE ELSE termSent

\* run_clicker, lines 1378-1472: a new multiprocessing.Value goes to a new
\* Worker, self.complete is reset, the Worker thread starts methods.main, the
\* pages of progress_widget are removed and number_of_images is 0
RunClicker ==
    /\ gui = "idle"
    /\ ~Running
    /\ runs < MaxRuns
    /\ run_checked' = TRUE
    /\ complete' = FALSE
    /\ self_complete' = FALSE
    /\ runs' = runs + 1
    /\ gui' = "looping"
    /\ pc' = "init"
    /\ result' = "none"
    /\ UNCHANGED <<fsVars, pollLocals, loadVars, workerVars, pid_store,
                   histVars>>
    /\ UNCHANGED callVars
    /\ pages' = <<>>
    /\ number_of_images' = 0
    /\ addQueue' = <<>>
    /\ UNCHANGED error_label

\* the handlers' common part: self.complete = True; self.worker.terminate();
\* SIGTERM to every stored pid
ConfirmCancel ==
    /\ self_complete' = TRUE
    /\ pc' = ThreadTerminated
    /\ ForgetPoll
    /\ termSent' = KillStored
    /\ UNCHANGED <<fsVars, complete, result, loadVars, worker, writes,
                   readers, pid_store, runs, histVars>>
    /\ UNCHANGED callVars

\* dialog_clicked(QMessageBox.Yes), lines 1546-1604, reached from the display
\* loop of run_clicker (lines 1495-1518), which then ends; its last lines
\* (1596-1604) add a page for each of images[progress_widget.count():]
DialogYes ==
    /\ gui = "looping"
    /\ ConfirmCancel
    /\ run_checked' = FALSE
    /\ gui' = "idle"
    /\ addQueue = <<>>
    /\ LET images == get_images(tables)
       IN  pages' = pages \o AddedPages(tables, SubSeq(images, Len(pages) + 1,
                                                      Len(images)))
    /\ UNCHANGED <<number_of_images, addQueue, error_label>>

\* closeEvent, Yes, lines 1637-1665
CloseYes ==
    /\ gui # "closed"
    /\ run_checked
    /\ ConfirmCancel
    /\ gui' = "closed"
    /\ UNCHANGED run_checked
    /\ UNCHANGED displayVars

\* signal_handler, Yes, lines 521-537
SigintYes ==
    /\ gui # "closed"
    /\ run_checked
    /\ ConfirmCancel
    /\ gui' = "closed"
    /\ UNCHANGED run_checked
    /\ UNCHANGED displayVars

\* on_worker_finished, lines 1255-1276: slot of Worker.finished, which
\* Worker.run emits when main returned without an exception
OnWorkerFinished ==
    /\ gui # "closed"
    /\ pc = "returned"
    /\ run_checked
    /\ run_checked' = FALSE
    /\ UNCHANGED <<fsVars, complete, mainVars, loadVars, workerVars,
                   self_complete, gui, pid_store, runs, histVars>>
    /\ UNCHANGED callVars
    /\ UNCHANGED displayVars

GuiStep == RunClicker \/ DialogYes \/ CloseYes \/ SigintYes \/ OnWorkerFinished

GuiNext ==
    \/ MainStep
    \/ ProcessingFails
    \/ Environment
    \/ GuiStep

GuiSpec == GuiInit /\ [][GuiNext]_vars

\* --------------------------------------------- calls of single functions
\* no run has left anything behind
NoLeftover ==
    /\ resultsDir = {}
    /\ processedDir = {}
    /\ tables = [i \in Iters |-> <<>>]
    /\ report = NoReport

\* create_data_dict is about to be called on the DataFrame of a result file
ExtractInit ==
    /\ NoLeftover
    /\ InitState
    /\ pc = "idle"
    /\ runs = 0
    /\ config_file = "ok"
    /\ metadata_file = FullMetadata
    /\ df \in DataFrames
    /\ data_dict = NotCalled
    /\ PdfIdle
    /\ KillIdle
    /\ HeadersIdle
    /\ SeqidIdle
    /\ StyleIdle
    /\ HoldIdle

\* line 311: return create_data_dict(df, csv_file, metadata_dict)
CreateDataDict ==
    /\ data_dict = NotCalled
    /\ data_dict' = create_data_dict(df)
    /\ UNCHANGED <<fsVars, mainVars, loadVars, workerVars, guiVars, histVars,
                   complete, df, pdfVars, killVars>>
    /\ UNCHANGED headerVars
    /\ UNCHANGED seqidVars
    /\ UNCHANGED styleVars
    /\ UNCHANGED holdVars
    /\ UNCHANGED displayVars

ExtractSpec == ExtractInit /\ [][CreateDataDict]_vars

\* ---- create_pdf_report, step by step
\* how subprocess.run(['weasyprint', ...], check=True) ends (lines 644-649)
Conversions == {"ok", "nonzero", "not_launched"}

\* `finally: os.remove(temp_html_path)` runs however the conversion ended
RemovedOnSuccess(conversion) == conversion = "ok"
Removed(conversion) == TRUE

\* lines 612-639: read the table, render the template, write the temporary
\* html file
WriteTempHtml ==
    /\ pc = "pdf"
    /\ IF tables[iteration] = <<>>
       THEN \* open(html_file_path) raises FileNotFoundError
            /\ pc' = "raised"
            /\ result' = "error"
            /\ failure' = "pdf"
            /\ ForgetPoll
            /\ UNCHANGED temp_html
       ELSE /\ temp_html' = TRUE
            /\ pc' = "convert"
            /\ UNCHANGED <<result, failure, pollLocals>>
    /\ UNCHANGED <<fsVars, complete, loadVars, workerVars, guiVars,
                   parse_count, appends_after_cancel, extractVars, killVars>>
    /\ UNCHANGED headerVars
    /\ UNCHANGED seqidVars
    /\ UNCHANGED styleVars
    /\ UNCHANGED holdVars
    /\ UNCHANGED displayVars

\* lines 642-652: run weasyprint; a non-zero exit is printed, a launcher that
\* cannot be started raises FileNotFoundError; the finally clause removes the
\* temporary file
ConvertToPdf ==
    /\ pc = "convert"
    /\ \E conversion \in Conversions :
          /\ temp_html' = (temp_html /\ ~Removed(conversion))
          /\ report' = IF conversion = "ok"
                       THEN [iter |-> iteration, rows |-> tables[iteration]]
                       ELSE report
          /\ IF conversion = "not_launched"
             THEN /\ pc' = "raised"
                  /\ result' = "error"
                  /\ failure' = "pdf"
                  /\ ForgetPoll
             ELSE /\ pc' = "wcheck"
                  /\ current_iteration' = iteration
                  /\ UNCHANGED <<result, failure, snap, iterQueue, iteration,
                                 all_data, fileQueue>>
    /\ UNCHANGED <<resultsDir, processedDir, tables, complete, loadVars,
                   workerVars, guiVars, parse_count, appends_after_cancel,
                   extractVars, killVars>>
    /\ UNCHANGED headerVars
    /\ UNCHANGED seqidVars
    /\ UNCHANGED styleVars
    /\ UNCHANGED holdVars
    /\ UNCHANGED displayVars

\* main with create_pdf_report taken in its two steps
PdfMainStep ==
    \/ MainInit
    \/ PollCheckComplete
    \/ PollCheckWorker
    \/ IterTop
    \/ FileTop
    \/ RenderTable
    \/ MoveFile
    \/ WriteTempHtml
    \/ ConvertToPdf
    \/ WorkerCheck

PdfNext ==
    \/ PdfMainStep
    \/ ProcessingFails
    \/ Environment
    \/ ExternalCancel

PdfSpec == Init /\ [][PdfNext]_vars

\* ---- the kill loop of the cancellation handlers
\* Most process identifiers, and most confirmed cancellations.
MaxPids == 3
MaxCancels == 2

Pids == 1..MaxPids

\* `except ProcessLookupError: pass`: the exceptions the loop swallows
CaughtNone(exc) == FALSE
Caught(exc) == exc = "ProcessLookupError"

RECURSIVE KillLoop(_, _)
\* for pid in self.pid_store: try: os.kill(pid, signal.SIGTERM)
\*                            except ProcessLookupError: pass
\* with `live` the pids that name a process: the pids os.kill was called
\* with, those whose process got the signal, and whether the loop raised
KillLoop(pids, live) ==
    IF pids = <<>>
    THEN [tried |-> {}, sent |-> {}, raised |-> FALSE]
    ELSE IF Head(pids) \in live
    THEN LET rest == KillLoop(Tail(pids), live)
         IN  [tried |-> {Head(pids)} \cup rest.tried,
              sent |-> {Head(pids)} \cup rest.sent,
              raised |-> rest.raised]
    ELSE IF Caught("ProcessLookupError")
    THEN LET rest == KillLoop(Tail(pids), live)
         IN  [rest EXCEPT !.tried = {Head(pids)} \cup rest.tried]
    ELSE [tried |-> {Head(pids)}, sent |-> {}, raised |-> TRUE]

\* A run is in progress; pid_store holds the pids that earlier runs and this
\* one stored, and any of their processes may be gone.
KillInit ==
    /\ NoLeftover
    /\ InitMain
    /\ ExtractIdle
    /\ PdfIdle
    /\ HeadersIdle
    /\ SeqidIdle
    /\ pc = "idle"
    /\ runs = 0
    /\ config_file = "ok"
    /\ metadata_file = FullMetadata
    /\ self_complete = FALSE
    /\ run_checked = TRUE
    /\ gui = "looping"
    /\ pid_store \in UNION {[1..n -> Pids] : n \in 0..MaxPids}
    /\ alive \in SUBSET Pids
    /\ kill_tried = {}
    /\ signalled = {}
    /\ kill_raised = FALSE
    /\ cancels = 0
    /\ StyleIdle
    /\ HoldIdle
    /\ DisplayIdle

\* lines 529-536, 1550-1591, 1657-1664: self.complete = True;
\* self.worker.terminate(); the loop over pid_store
CancelAndKill ==
    /\ ~kill_raised
    /\ cancels < MaxCancels
    /\ cancels' = cancels + 1
    /\ self_complete' = TRUE
    /\ pc' = ThreadTerminated
    /\ LET loop == KillLoop(pid_store, alive)
       IN  /\ kill_tried' = loop.tried
           /\ signalled' = signalled \cup loop.sent
           /\ kill_raised' = loop.raised
    /\ UNCHANGED <<fsVars, complete, result, pollLocals, loadVars, workerVars,
                   pid_store, runs, histVars, extractVars, pdfVars, alive>>
    /\ UNCHANGED headerVars
    /\ UNCHANGED seqidVars
    /\ UNCHANGED styleVars
    /\ UNCHANGED holdVars
    /\ UNCHANGED displayVars

\* dialog_clicked(QMessageBox.Yes): the window stays open
DialogKill ==
    /\ gui = "looping"
    /\ CancelAndKill
    /\ run_checked' = FALSE
    /\ gui' = IF kill_raised' THEN gui ELSE "idle"

\* closeEvent, Yes: event.accept()
CloseKill ==
    /\ gui # "closed"
    /\ run_checked
    /\ CancelAndKill
    /\ gui' = IF kill_raised' THEN gui ELSE "closed"
    /\ UNCHANGED run_checked

\* signal_handler, Yes: sys.exit(0)
SigintKill ==
    /\ gui # "closed"
    /\ run_checked
    /\ CancelAndKill
    /\ gui' = IF kill_raised' THEN gui ELSE "closed"
    /\ UNCHANGED run_checked

\* run_clicker starts the next run and main stores the pid of its worker
\* (methods.py, lines 766-768); the system may hand out a pid again
RunStoresPid ==
    /\ gui = "idle"
    /\ ~run_checked
    /\ Len(pid_store) < MaxPids
    /\ \E p \in Pids \ alive :
          /\ pid_store' = Append(pid_store, p)
          /\ alive' = alive \cup {p}
    /\ run_checked' = TRUE
    /\ gui' = "looping"
    /\ UNCHANGED <<fsVars, mainVars, loadVars, workerVars, self_complete,
                   runs, histVars, complete, extractVars, pdfVars,
                   kill_tried, signalled, kill_raised, cancels>>
    /\ UNCHANGED headerVars
    /\ UNCHANGED seqidVars
    /\ UNCHANGED styleVars
    /\ UNCHANGED holdVars
    /\ UNCHANGED displayVars

\* a process that a pid names exits (on the signal or by itself)
ProcessExits ==
    /\ \E p \in alive : alive' = alive \ {p}
    /\ UNCHANGED <<fsVars, mainVars, loadVars, workerVars, guiVars, histVars,
                   complete, extractVars, pdfVars, kill_tried, signalled,
                   kill_raised, cancels>>
    /\ UNCHANGED headerVars
    /\ UNCHANGED seqidVars
    /\ UNCHANGED styleVars
    /\ UNCHANGED holdVars
    /\ UNCHANGED displayVars

KillNext ==
    \/ DialogKill
    \/ CloseKill
    \/ SigintKill
    \/ RunStoresPid
    \/ ProcessExits

KillSpec == KillInit /\ [][KillNext]_vars

\* ---- validate_headers
necessary_headers ==
    <<"reference", "fast5_dir", "output_dir", "config", "barcode",
      "barcode_values">>

\* the keys a configuration record can hold: the required ones and another
ConfigKeys == Range(necessary_headers) \cup {"extra"}

\* [header for header in necessary_headers if header not in data_dict]
first_missing_header(d) ==
    LET Absent(h) == h \notin d
        missing == SelectSeq(necessary_headers, Absent)
    IN  IF missing = <<>> THEN <<>> ELSE <<Head(missing)>>
missing_headers(d) ==
    LET Absent(h) == h \notin d IN SelectSeq(necessary_headers, Absent)

\* the returned string: its fixed part and the names that ', '.join lists;
\* None has neither
None == [status |-> "returned", text |-> "", names |-> <<>>]
Message(text, names) ==
    [status |-> "returned", text |-> text, names |-> names]

\* validate_headers(data_dict), lines 108-127, on a dictionary with keys d
validate_headers(d) ==
    IF missing_headers(d) # <<>>
    THEN IF Len(missing_headers(d)) = 1
         THEN Message("Missing necessary header: ", missing_headers(d))
         ELSE Message("Missing necessary headers: ", missing_headers(d))
    ELSE None

\* validate_headers is about to be called on a record with any keys
HeadersInit ==
    /\ NoLeftover
    /\ InitState
    /\ ExtractIdle
    /\ PdfIdle
    /\ KillIdle
    /\ SeqidIdle
    /\ pc = "idle"
    /\ runs = 0
    /\ config_file = "ok"
    /\ metadata_file = FullMetadata
    /\ config_dict \in SUBSET ConfigKeys
    /\ header_error = [status |-> "none"]
    /\ StyleIdle
    /\ HoldIdle

ValidateHeaders ==
    /\ header_error.status = "none"
    /\ header_error' = validate_headers(config_dict)
    /\ UNCHANGED <<fsVars, mainVars, loadVars, workerVars, guiVars, histVars,
                   complete, extractVars, pdfVars, killVars, config_dict>>
    /\ UNCHANGED seqidVars
    /\ UNCHANGED styleVars
    /\ UNCHANGED holdVars
    /\ UNCHANGED displayVars

HeadersSpec == HeadersInit /\ [][ValidateHeaders]_vars

\* ---- validate_seqid_entries
\* A cell text is the sequence of its characters.
Year == <<"2", "0", "2", "4">>
Min == <<"-", "M", "I", "N", "-">>
SeqidA == Year \o Min \o <<"0", "0", "0", "1">>
SeqidB == Year \o Min \o <<"0", "0", "0", "2">>

\* What the SEQID cell of a row can hold: nothing, a blank, two well-formed
\* identifiers, one of them followed or preceded by a blank, and identifiers
\* with a digit too few, a digit too many, and 'min' in lower case.
SeqidTexts ==
    {<<>>, <<" ">>, SeqidA, SeqidB, SeqidA \o <<" ">>, <<" ">> \o SeqidA,
     Year \o Min \o <<"0", "0", "1">>,
     SeqidA \o <<"1">>,
     Year \o <<"-", "m", "i", "n", "-">> \o <<"0", "0", "0", "1">>}

\* the table of the dialog: a row per selected barcode (lines 936-952), the
\* SEQID cell as the user left it
Tables ==
    UNION {[1..n -> [barcode : Barcodes, seqid : SeqidTexts]] :
              n \in 0..NumBarcodes}
SelectedTables ==
    {t \in Tables : \A k \in 1..Len(t) : t[k].barcode = k}

RECURSIVE rstrip(_)
\* str.rstrip(): without the white space at its end
rstrip(s) ==
    IF s # <<>> /\ s[Len(s)] \in {" ", "\t", "\n"}
    THEN rstrip(SubSeq(s, 1, Len(s) - 1))
    ELSE s

\* seqid_pattern.match(seqid) for r"^\d{4}-MIN-\d{4}$"; `$` also matches
\* before a line feed that ends the string
MatchesFromStart(s) ==
    /\ Len(s) >= 13
    /\ \A k \in (1..4) \cup (10..13) : IsDigit(s[k])
    /\ SubSeq(s, 5, 9) = Min
Matches(s) ==
    /\ Len(s) >= 13
    /\ \A k \in (1..4) \cup (10..13) : IsDigit(s[k])
    /\ SubSeq(s, 5, 9) = Min
    /\ Len(s) = 13 \/ (Len(s) = 14 /\ s[14] = "\n")

RECURSIVE SeqidLoop(_, _)
\* lines 1103-1124: the loop over the rows, from the state st of
\* seqid_to_barcodes, sequence_info and invalid_messages
SeqidLoop(rows, st) ==
    IF rows = <<>> THEN st
    ELSE LET seqid == rstrip(Head(rows).seqid)
             barcode == Head(rows).barcode
             next ==
                 IF seqid = <<>>
                 THEN [st EXCEPT !.invalid_messages =
                          Append(@, <<"missing", barcode>>)]
                 ELSE IF ~Matches(seqid)
                 THEN [st EXCEPT !.invalid_messages =
                          Append(@, <<"invalid", barcode>>)]
                 ELSE IF seqid \in DOMAIN st.seqid_to_barcodes
                 THEN [st EXCEPT !.seqid_to_barcodes[seqid] =
                          Append(@, barcode)]
                 ELSE [st EXCEPT
                          !.seqid_to_barcodes =
                              [k \in (DOMAIN @) \cup {seqid} |->
                                  IF k = seqid THEN <<barcode>> ELSE @[k]],
                          !.sequence_info =
                              Append(@, [barcode |-> barcode,
                                         SEQID |-> seqid])]
         IN  SeqidLoop(Tail(rows), next)

\* validate_seqid_entries(table), lines 1092-1144: sequence_info as it is
\* left, and the value returned
validate_seqid_entries(rows) ==
    LET st == SeqidLoop(rows, [seqid_to_barcodes |-> <<>>,
                               sequence_info |-> <<>>,
                               invalid_messages |-> <<>>])
        not_unique == {x \in DOMAIN st.seqid_to_barcodes :
                          Len(st.seqid_to_barcodes[x]) > 1}
    IN  [sequence_info |-> st.sequence_info,
         returned |-> IF st.invalid_messages # <<>> \/ not_unique # {}
                      THEN "False" ELSE "True"]

\* the user has filled the table and accepts the dialog (line 1009)
SeqidInit ==
    /\ NoLeftover
    /\ InitState
    /\ ExtractIdle
    /\ PdfIdle
    /\ KillIdle
    /\ HeadersIdle
    /\ pc = "idle"
    /\ runs = 0
    /\ config_file = "ok"
    /\ metadata_file = FullMetadata
    /\ table \in SelectedTables
    /\ sequence_info = <<>>
    /\ seqids_valid = "none"
    /\ StyleIdle
    /\ HoldIdle

ValidateSeqidEntries ==
    /\ seqids_valid = "none"
    /\ sequence_info' = validate_seqid_entries(table).sequence_info
    /\ seqids_valid' = validate_seqid_entries(table).returned
    /\ UNCHANGED <<fsVars, mainVars, loadVars, workerVars, guiVars, histVars,
                   complete, extractVars, pdfVars, killVars, headerVars,
                   table>>
    /\ UNCHANGED styleVars
    /\ UNCHANGED holdVars
    /\ UNCHANGED displayVars

SeqidSpec == SeqidInit /\ [][ValidateSeqidEntries]_vars

\* ---- visualize_data, cell by cell
\* the keys of the record create_data_dict returns (lines 420-461): the
\* columns of pd.DataFrame(all_data)
RecordColumns ==
    {"SEQID", "OLN ID", "O-Type", "H-Type", "stx1", "stx2", "eae", "hylA",
     "aggR", "aaiC", "uidA", "GDCS", "Coverage"}

\* the values of a cell: None or NaN, an int, a float (n counts hundredths)
\* and a str
Null == [kind |-> "null", text |-> <<>>, n |-> 0]
Int(n) == [kind |-> "int", text |-> <<>>, n |-> n]
Float(n) == [kind |-> "float", text |-> <<>>, n |-> n]
Str(t) == [kind |-> "str", text |-> t, n |-> 0]

\* What create_data_dict puts in a column.  SEQID is the start of a file name
\* and OLN ID a cell of the metadata file, both free text; the serotype fields
\* are '-' or a label with a count; the gene fields are '-' or an int; GDCS is
\* 'k/325'; Coverage is a float rounded to two places.
ColumnValues(column) ==
    CASE column = "SEQID" ->
             {Str(SeqidA), Str(SeqidB), Str(<<"1", "2">>), Str(<<"7">>),
              Str(<<"b", "c", "0", "1">>), Str(<<"-">>)}
      [] column = "OLN ID" ->
             {Null, Str(<<>>), Str(<<"-">>), Str(<<"O", "L", "F", "1">>),
              Str(<<"N", "/", "A">>), Str(<<"1", "2", "/", "A">>),
              Str(<<"4", "0", "0", "/", "A">>), Str(<<"/", "5">>),
              Str(<<" ", "7", "/", "2">>), Str(<<"7", ".", "4">>),
              Str(<<"7", ".", "5">>), Str(<<".", "5">>), Str(<<".">>),
              Str(<<"1", ".", "2", ".", "3">>), Str(<<"3">>)}
      [] column \in {"O-Type", "H-Type"} ->
             {Str(<<"-">>), Str(<<"1", "5", "7", " ", "(", "4", ")">>),
              Str(<<"7", " ", "(", "2", ")">>)}
      [] column = "GDCS" ->
             {Str(<<"0", "/", "3", "2", "5">>),
              Str(<<"3", "1", "9", "/", "3", "2", "5">>),
              Str(<<"3", "2", "0", "/", "3", "2", "5">>),
              Str(<<"3", "2", "5", "/", "3", "2", "5">>)}
      [] column = "Coverage" ->
             {Float(0), Float(5), Float(700), Float(749), Float(750),
              Float(1234)}
      [] OTHER -> {Str(<<"-">>), Int(2), Int(7), Int(400)}

RECURSIVE Pow10(_)
Pow10(k) == IF k = 0 THEN 1 ELSE 10 * Pow10(k - 1)

\* str.isdigit()
isdigit(s) == s # <<>> /\ \A k \in 1..Len(s) : IsDigit(s[k])

RECURSIVE lstrip(_)
\* str.lstrip(): without the white space at its start
lstrip(s) ==
    IF s # <<>> /\ s[1] \in {" ", "\t", "\n"} THEN lstrip(Tail(s)) ELSE s

\* int(s) of a str, line 486: white space around the number and a sign before
\* it are accepted; anything else raises ValueError
Unsigned(s) ==
    LET t == lstrip(rstrip(s))
    IN  IF t # <<>> /\ t[1] \in {"+", "-"} THEN Tail(t) ELSE t
IsInt(s) == isdigit(Unsigned(s))
IntValue(s) ==
    LET t == lstrip(rstrip(s))
    IN  IF t[1] = "-" THEN 0 - IntOf(Unsigned(s)) ELSE IntOf(Unsigned(s))

\* val.replace('.', '', 1), line 490
RemoveFirst(s, c) ==
    IF \E k \in 1..Len(s) : s[k] = c
    THEN BeforeFirst(s, c) \o AfterFirst(s, c)
    ELSE s

\* float(val) < 7.5, line 491, of digits with at most one '.' among them
BelowDepth(s) ==
    LET places == IF \E k \in 1..Len(s) : s[k] = "."
                  THEN Len(AfterFirst(s, ".")) ELSE 0
    IN  IntOf(RemoveFirst(s, ".")) * 10 < 75 * Pow10(places)

White == "background-color: white; color: black"
Grey == "background-color: #D3D3D3; color: black"
Blue == "background-color: blue; color: white"
Styled(css) == [status |-> "returned", css |-> css]
ValueError == [status |-> "ValueError"]

\* color_cells(val), lines 476-497
color_cells(val) ==
    IF val.kind = "null" \/ val = Str(<<"-">>) THEN Styled(White)
    ELSE IF val.kind = "str" /\ Contains(val.text, <<"/">>)
    THEN IF ~IsInt(BeforeFirst(val.text, "/")) THEN ValueError
         ELSE IF IntValue(BeforeFirst(val.text, "/")) < 320
         THEN Styled(Grey)
         ELSE Styled(Blue)
    ELSE IF /\ val.kind = "str"
            /\ isdigit(RemoveFirst(val.text, "."))
            /\ BelowDepth(val.text)
    THEN Styled(Grey)
    ELSE Styled(Blue)

\* Series.round(2).astype(str), line 500, of a float of two places
astype_str(val) ==
    IF val.kind # "float" THEN val
    ELSE Str(IntText(val.n \div 100) \o <<".">> \o
             (IF val.n % 10 = 0 THEN <<DigitChars[((val.n % 100) \div 10) + 1]>>
              ELSE <<DigitChars[((val.n % 100) \div 10) + 1],
                     DigitChars[(val.n % 10) + 1]>>))

\* what all_data_df holds in the cell when the styles are computed
Shown(c) == IF c.column = "Coverage" THEN astype_str(c.val) ELSE c.val

\* lines 503-511 for one cell: Styler.map(color_cells), then the column-wise
\* function that gives the column named 'Strain Name' the neutral style and
\* every other column the empty style, which adds nothing
visualize_data(c) ==
    LET mapped == color_cells(Shown(c))
    IN  IF mapped.status # "returned" THEN mapped
        ELSE IF c.column = "Strain Name" THEN Styled(White)
        ELSE mapped

StyleInit ==
    /\ NoLeftover
    /\ InitState
    /\ pc = "idle"
    /\ runs = 0
    /\ config_file = "ok"
    /\ metadata_file = FullMetadata
    /\ \E column \in RecordColumns :
          \E val \in ColumnValues(column) :
             cell = [column |-> column, val |-> val]
    /\ cell_style = NotCalled
    /\ ExtractIdle
    /\ PdfIdle
    /\ KillIdle
    /\ HeadersIdle
    /\ SeqidIdle
    /\ HoldIdle

\* lines 853-859: the table is rendered, this cell with it
VisualizeData ==
    /\ cell_style = NotCalled
    /\ cell_style' = visualize_data(cell)
    /\ UNCHANGED <<fsVars, mainVars, loadVars, workerVars, guiVars, histVars,
                   complete, extractVars, pdfVars, killVars, headerVars,
                   seqidVars, cell>>
    /\ UNCHANGED holdVars
    /\ UNCHANGED displayVars

StyleSpec == StyleInit /\ [][VisualizeData]_vars

\* ---- HoldPlace.main_loop of src/poresippr_placeholder.py, step by step
MaxImages == 3
\* an image is named by its place in the sorted list of all names
Images == 1..MaxImages

\* sorted(glob(os.path.join(image_dir, '*.png'))), line 149
SortedImages(S) == SortedIterations(S)

\* locate_image(image_dir, image_list, complete), lines 149-162: what it
\* returns.  When every image of the folder is in image_list and the two lists
\* differ, the loop ends without a return and the function returns None.
locate_image(dir, list, local_complete) ==
    IF SortedImages(dir) = list
    THEN [status |-> "returned", image_list |-> list, complete |-> TRUE]
    ELSE IF dir \subseteq Range(list) THEN [status |-> "None"]
    ELSE [status |-> "returned",
          image_list |->
              Append(list, CHOOSE x \in dir \ Range(list) :
                               \A y \in dir \ Range(list) : x <= y),
          complete |-> local_complete]

HoldInit ==
    /\ NoLeftover
    /\ InitState
    /\ pc = "idle"
    /\ runs = 0
    /\ config_file = "ok"
    /\ metadata_file = FullMetadata
    /\ image_dir \in SUBSET Images
    /\ working_dir \in SUBSET Images
    /\ image_list = <<>>
    /\ copied = <<>>
    /\ hold_complete = FALSE
    /\ returned_complete = FALSE
    /\ hold_pc = "clear"
    /\ ExtractIdle
    /\ PdfIdle
    /\ KillIdle
    /\ HeadersIdle
    /\ SeqidIdle
    /\ StyleIdle

\* lines 94-96: clear_folder removes the images of the working directory
ClearFolder ==
    /\ hold_pc = "clear"
    /\ working_dir' = {}
    /\ hold_pc' = "while"
    /\ UNCHANGED <<image_dir, image_list, copied, hold_complete,
                   returned_complete>>
    /\ UNCHANGED <<fsVars, mainVars, loadVars, workerVars, guiVars, histVars,
                   complete, extractVars, pdfVars, killVars, headerVars,
                   seqidVars, styleVars>>
    /\ UNCHANGED displayVars

\* line 97: while not self.complete.value
LoopTest ==
    /\ hold_pc = "while"
    /\ hold_pc' = IF hold_complete THEN "stopped" ELSE "locate"
    /\ UNCHANGED <<image_dir, working_dir, image_list, copied, hold_complete,
                   returned_complete>>
    /\ UNCHANGED <<fsVars, mainVars, loadVars, workerVars, guiVars, histVars,
                   complete, extractVars, pdfVars, killVars, headerVars,
                   seqidVars, styleVars>>
    /\ UNCHANGED displayVars

\* lines 98-102: self.image_list, complete = HoldPlace.locate_image(...);
\* unpacking None raises TypeError
LocateImage ==
    /\ hold_pc = "locate"
    /\ LET r == locate_image(image_dir, image_list, returned_complete)
       IN  IF r.status = "None"
           THEN /\ hold_pc' = "raised"
                /\ UNCHANGED <<image_list, returned_complete>>
           ELSE /\ image_list' = r.image_list
                /\ returned_complete' = r.complete
                /\ hold_pc' = "copy"
    /\ UNCHANGED <<image_dir, working_dir, copied, hold_complete>>
    /\ UNCHANGED <<fsVars, mainVars, loadVars, workerVars, guiVars, histVars,
                   complete, extractVars, pdfVars, killVars, headerVars,
                   seqidVars, styleVars>>
    /\ UNCHANGED displayVars

\* lines 103-106: copy_image(image=self.image_list[-1]); [-1] of an empty list
\* raises IndexError.  The calls are recorded up to MaxImages + 1 of them.
CopyImage ==
    /\ hold_pc = "copy"
    /\ IF image_list = <<>>
       THEN /\ hold_pc' = "raised"
            /\ UNCHANGED <<working_dir, copied>>
       ELSE /\ copied' = IF Len(copied) <= MaxImages
                         THEN Append(copied, image_list[Len(image_list)])
                         ELSE copied
            /\ working_dir' = working_dir \cup {image_list[Len(image_list)]}
            /\ hold_pc' = "sleep"
    /\ UNCHANGED <<image_dir, image_list, hold_complete, returned_complete>>
    /\ UNCHANGED <<fsVars, mainVars, loadVars, workerVars, guiVars, histVars,
                   complete, extractVars, pdfVars, killVars, headerVars,
                   seqidVars, styleVars>>
    /\ UNCHANGED displayVars

\* lines 108-111: up to five seconds of sleep, then the loop test again
Sleep ==
    /\ hold_pc = "sleep"
    /\ hold_pc' = "while"
    /\ UNCHANGED <<image_dir, working_dir, image_list, copied, hold_complete,
                   returned_complete>>
    /\ UNCHANGED <<fsVars, mainVars, loadVars, workerVars, guiVars, histVars,
                   complete, extractVars, pdfVars, killVars, headerVars,
                   seqidVars, styleVars>>
    /\ UNCHANGED displayVars

\* lines 113-117: terminate() sets complete.value
Terminate ==
    /\ hold_pc \in {"clear", "while", "locate", "copy", "sleep"}
    /\ ~hold_complete
    /\ hold_complete' = TRUE
    /\ UNCHANGED <<image_dir, working_dir, image_list, copied,
                   returned_complete, hold_pc>>
    /\ UNCHANGED <<fsVars, mainVars, loadVars, workerVars, guiVars, histVars,
                   complete, extractVars, pdfVars, killVars, headerVars,
                   seqidVars, styleVars>>
    /\ UNCHANGED displayVars

HoldStep ==
    \/ ClearFolder
    \/ LoopTest
    \/ LocateImage
    \/ CopyImage
    \/ Sleep

HoldNext ==
    \/ HoldStep
    \/ Terminate

HoldSpec == HoldInit /\ [][HoldNext]_vars
\* the subprocess of main_loop keeps running while it has a step to take
HoldFairSpec == HoldSpec /\ WF_vars(HoldStep)

\* ---- the display loop of run_clicker, lines 1471-1492, step by step
\* run_clicker has started the Worker of the first run and has reached its
\* display loop; a prior run may have left a file in the results folder
DisplayInit ==
    /\ resultsDir \in Leftover
    /\ processedDir = {}
    /\ tables = [i \in Iters |-> <<>>]
    /\ report = NoReport
    /\ InitMain
    /\ CallIdle
    /\ pc = "init"
    /\ runs = 1
    /\ config_file = "ok"
    /\ metadata_file = FullMetadata
    /\ self_complete = FALSE
    /\ run_checked = TRUE
    /\ gui = "looping"
    /\ pid_store = <<>>
    /\ DisplayIdle

\* lines 1476-1492, one pass of `while not self.complete`: images =
\* self.get_images(...); the paths images[number_of_images:] are those the for
\* loop adds; number_of_images = len(images)
DisplayScan ==
    /\ gui = "looping"
    /\ ~self_complete
    /\ addQueue = <<>>
    /\ LET images == get_images(tables)
       IN  /\ addQueue' = SubSeq(images, number_of_images + 1, Len(images))
           /\ number_of_images' = Len(images)
    /\ UNCHANGED <<pages, error_label>>
    /\ UNCHANGED <<fsVars, mainVars, loadVars, workerVars, guiVars, histVars,
                   complete, callVars>>

\* add_html_to_gui(html_path), lines 1309-1346: once the size of the file has
\* been the same for a second, a page is added and set to what the file holds
\* at that moment; the page is not loaded again
DisplayAdd ==
    /\ gui = "looping"
    /\ addQueue # <<>>
    /\ tables[Head(addQueue)] # <<>>
    /\ pages' = pages \o AddedPages(tables, <<Head(addQueue)>>)
    /\ addQueue' = Tail(addQueue)
    /\ UNCHANGED <<number_of_images, error_label>>
    /\ UNCHANGED <<fsVars, mainVars, loadVars, workerVars, guiVars, histVars,
                   complete, callVars>>

\* update_error_label, lines 1201-1212: slot of Worker.error, which Worker.run
\* emits when main raised (lines 133-135); it sets the text of the label
UpdateErrorLabel ==
    /\ gui # "closed"
    /\ pc = "raised"
    /\ ~error_label
    /\ error_label' = TRUE
    /\ UNCHANGED <<pages, number_of_images, addQueue>>
    /\ UNCHANGED <<fsVars, mainVars, loadVars, workerVars, guiVars, histVars,
                   complete, callVars>>

DisplayStep == DisplayScan \/ DisplayAdd

DisplayNext ==
    \/ MainStep
    \/ ProcessingFails
    \/ Environment
    \/ DisplayStep
    \/ OnWorkerFinished
    \/ UpdateErrorLabel
    \/ DialogYes

DisplaySpec == DisplayInit /\ [][DisplayNext]_vars

\* the Worker thread and the event loop of the GUI thread keep running; the
\* user need not press a button
DisplayFairSpec ==
    /\ DisplaySpec
    /\ WF_vars(MainStep)
    /\ WF_vars(DisplayStep)
    /\ WF_vars(OnWorkerFinished)
    /\ WF_vars(UpdateErrorLabel)

\* ================================================================== claims
\* what a step of main does to the files of iteration i
ParsesFileOf(i) ==
    \E f \in FilesOf(Files, i) : parse_count'[f] # parse_count[f]
AppendsRecordOf(i) ==
    /\ Len(all_data') = Len(all_data) + 1
    /\ all_data'[Len(all_data')][1] = i
WritesTable(i) == tables'[i] # tables[i]
GeneratesReportOf(i) == pc = "pdf" /\ pc' = "wcheck" /\ iteration = i
MovesFileOf(i) ==
    \/ FilesOf(processedDir', i) # FilesOf(processedDir, i)
    \/ ~(FilesOf(resultsDir, i) \subseteq FilesOf(resultsDir', i))
Touches(i) ==
    \/ ParsesFileOf(i)
    \/ AppendsRecordOf(i)
    \/ WritesTable(i)
    \/ GeneratesReportOf(i)
    \/ MovesFileOf(i)

\* C1 (readiness gating): in every poll, an iteration for which the directory
\* listing of that poll holds fewer than len(barcode_values) files has no file
\* parsed, no record appended, no table written, no report generated from it
\* and no file moved: it is left as it is for the next poll.
C1_ReadinessGating ==
    [][\A i \in Iters :
          (pc # "init" /\ Cardinality(FilesOf(snap, i)) < NumBarcodes)
              => ~Touches(i)]_vars

\* C1 witness: the for loop has just skipped an iteration that holds some
\* files, but fewer than len(barcode_values), and all of them are still there.
C1_Witness ==
    /\ pc = "iter"
    /\ iteration \in Iters
    /\ FilesOf(snap, iteration) # {}
    /\ Cardinality(FilesOf(snap, iteration)) < NumBarcodes
    /\ FilesOf(snap, iteration) \subseteq resultsDir
    /\ tables[iteration] = <<>>

\* C2 (idempotent consumption): a file name that is in the processed folder
\* is not parsed and gets no record appended by any later step of the run, and
\* every file name is turned into at most one record during the run.
C2_IdempotentConsumption ==
    /\ [](\A f \in Files : parse_count[f] <= 1)
    /\ [][\A f \in processedDir :
             /\ parse_count'[f] = parse_count[f]
             /\ ~(/\ Len(all_data') = Len(all_data) + 1
                  /\ all_data'[Len(all_data')] = f)]_vars

\* C2 witness: a later poll rediscovered every file of a ready iteration under
\* names that are all in the processed folder, went through them all and
\* appended nothing.
C2_Witness ==
    /\ pc = "pdf"
    /\ FilesOf(snap, iteration) \subseteq processedDir
    /\ FilesOf(snap, iteration) \subseteq resultsDir
    /\ all_data = <<>>
    /\ \A f \in FilesOf(snap, iteration) : parse_count[f] = 1

\* C3 (iteration monotonicity): once a higher iteration i2 has records in its
\* table, the table of a lower iteration i1 is not rendered any more.
C3_IterationMonotonicity ==
    [][\A i1 \in Iters, i2 \in Iters :
          (pc # "init" /\ i1 < i2 /\ tables[i2] # <<>>)
              => tables'[i1] = tables[i1]]_vars

\* C4 (cancellation bound): after complete.value has become true, at most one
\* more record (that of the file in flight) is appended.
C4_CancellationBound == appends_after_cancel <= 1

\* C5 (cancellation wiring): when a GUI handler has confirmed a cancellation
\* (self.complete = True), the flag main polls, complete.value, is true.
C5_CancellationWiring == self_complete => complete

\* C6 (worker terminated on cancel): when main has returned because it
\* observed the cancellation flag, the worker process has exited.
C6_WorkerTerminatedOnCancel ==
    (pc = "returned" /\ result = "cancelled") => worker \in {"zero", "nonzero"}

\* C7 (worker failure is surfaced): main never returns normally after the
\* worker exited with a non-zero code that no cancellation caused.
C7_WorkerFailureSurfaced ==
    (pc = "returned" /\ worker = "nonzero") => (complete \/ termSent)

\* C8 (worker normal exit): when main stops because the worker exited with
\* code 0, no ready iteration is left unprocessed in the results directory.
C8_ReadyProcessedOnNormalExit ==
    (pc = "returned" /\ result = "worker_exit" /\ worker = "zero")
        => \A i \in Iters :
              Cardinality(FilesOf(resultsDir, i)) >= NumBarcodes
                  => FilesOf(resultsDir, i) \subseteq processedDir

\* C9 (termination of the polling loop): once the flag is set (it stays set)
\* or the worker has exited, main eventually returns or raises; and main ends
\* only if the flag is set, the worker has exited or a processing step failed.
C9_Termination ==
    /\ (complete \/ worker \in {"zero", "nonzero"}) ~> Stopped
    /\ [][(~Stopped /\ Stopped')
             => (complete \/ worker \in {"zero", "nonzero"}
                 \/ result' = "error")]_vars

\* C9 witness: the loop ran, processed files, and then ended on the flag.
C9_Witness ==
    /\ pc = "returned"
    /\ result = "cancelled"
    /\ processedDir # {}

\* C10 (STOPPED is terminal): once main has observed, at the top of a poll,
\* the flag set or the worker exited, no file is parsed, no table is written,
\* no report is generated and no file is moved to the processed folder.
C10_StoppedTerminal ==
    [][(result \in {"cancelled", "worker_exit"})
          => (/\ parse_count' = parse_count
              /\ tables' = tables
              /\ report' = report
              /\ processedDir' = processedDir
              /\ ~(pc = "pdf" /\ pc' = "wcheck"))]_vars

\* C10 witness: main stopped on the worker's exit while the results directory
\* held a complete iteration none of whose files had been processed.
C10_Witness ==
    /\ pc = "returned"
    /\ result = "worker_exit"
    /\ \E i \in Iters :
          /\ Cardinality(FilesOf(resultsDir, i)) >= NumBarcodes
          /\ FilesOf(resultsDir, i) \cap processedDir = {}

\* C11 (join before report): when main has raised the subprocess-failure error
\* or has stopped because the worker exited, both reader threads have reached
\* the end of their streams.
C11_JoinBeforeReport ==
    (Stopped /\ result \in {"subprocess_failed", "worker_exit"})
        => readers = "done"

\* C12 (cancellation is not a worker fault): once a cancellation has been
\* requested while the worker was still running, main never ends with the
\* subprocess-failure error.
C12_CancelNotWorkerFault ==
    []((complete /\ worker = "running") => [](result # "subprocess_failed"))

\* C13 (error isolation per file): an exception of the record extraction or
\* of the table rendering of one file does not end main.
C13_ErrorIsolation == (failure \in {"extract", "render"}) => ~Stopped

\* C14 (transient I/O tolerance): a result file that cannot be parsed yet, or
\* whose move into the processed folder fails, does not end main.
C14_TransientIOTolerated == (failure \in {"parse", "move"}) => ~Stopped

\* C15 (no silent failure): whenever create_pdf_report returns normally, the
\* report file is the one made from the table of the iteration it was called
\* for.
C15_NoSilentFailure ==
    [][(pc = "pdf" /\ pc' = "wcheck")
          => (report' = [iter |-> iteration, rows |-> tables[iteration]])]_vars

\* C16 (configuration errors precede the worker): when the configuration file
\* or the metadata file cannot be opened, or a data row lacks a column that
\* is read, main has raised, no worker process was launched and no pid was
\* stored.
C16_ConfigErrorsPrecedeWorker ==
    (/\ pc # "init"
     /\ \/ config_file \in {"unreadable", "no_column"}
        \/ ~metadata_file.readable
        \/ ~metadata_file.columns /\ metadata_file.rows # <<>>)
        => (/\ pc = "raised"
            /\ failure \in {"config", "metadata"}
            /\ worker = "none"
            /\ readers = "none"
            /\ pid_store = <<>>)

\* C16 witness: the configuration was read, a row of the metadata file lacked
\* a column, main raised and there is no worker.
C16_Witness ==
    /\ pc = "raised"
    /\ failure = "metadata"
    /\ config_file = "ok"
    /\ ~metadata_file.columns
    /\ worker = "none"

\* C17 (duplicate SEQIDs are rejected at load time): when two rows of the
\* metadata file give the same SEQID under two different barcodes, the load
\* raises.
C17_DuplicatesRejected ==
    (/\ pc # "init"
     /\ \E j, k \in DOMAIN metadata_file.rows :
           /\ j < k
           /\ metadata_file.rows[j][1] = metadata_file.rows[k][1]
           /\ metadata_file.rows[j][2] # metadata_file.rows[k][2])
        => pc = "raised"

\* C18 (metadata lookup failure leaves the state unchanged): the step of main
\* that takes up an unprocessed file whose SEQID has no entry in link_dict
\* raises, appends no record, writes no table and moves no file: the file
\* stays in the results folder.
C18_LookupFailureLeavesState ==
    [][(/\ pc = "file"
        /\ pc' # "file"
        /\ fileQueue # <<>>
        /\ ~AlreadyProcessed(Head(fileQueue))
        /\ SeqIdOf(Head(fileQueue)) \notin DOMAIN link_dict)
          => (/\ pc' = "raised"
              /\ Len(all_data') <= Len(all_data)
              /\ tables' = tables
              /\ report' = report
              /\ processedDir' = processedDir
              /\ Head(fileQueue) \in resultsDir')]_vars

\* C18 witness: main raised on the lookup of a file that is still in the
\* results folder, after it had processed another file of the run.
C18_Witness ==
    /\ pc = "raised"
    /\ failure = "lookup"
    /\ processedDir # {}
    /\ \E f \in resultsDir \ processedDir :
          /\ parse_count[f] = 1
          /\ SeqIdOf(f) \notin DOMAIN link_dict

\* C19 (completeness means every expected sample): while main processes an
\* iteration, the listing of the poll holds, for every barcode of
\* barcode_values, a file of that iteration whose sample is under that
\* barcode.
C19_EverySamplePresent ==
    (pc \in {"file", "render", "move", "pdf"})
        => \A b \in Barcodes :
              \E f \in FilesOf(snap, iteration) :
                  HasMetadata(f) /\ link_dict[SeqIdOf(f)] = b

\* C20 (processing order within a poll): the iterations still to be visited
\* in this poll are in strictly ascending order of their numbers and all
\* greater than the ones visited; the files still to be visited in the
\* iteration are in strictly ascending order of their names.
C20_ProcessingOrder ==
    /\ \A k \in 1..Len(iterQueue) :
          /\ iteration < iterQueue[k]
          /\ \A j \in 1..(k - 1) : iterQueue[j] < iterQueue[k]
    /\ \A k \in 1..Len(fileQueue) :
          /\ fileQueue[k][1] = iteration
          /\ \A j \in 1..(k - 1) : fileQueue[j][2] < fileQueue[k][2]

\* C20 witness: in one poll main has processed iteration 2 and is now in
\* iteration 10, with two files still to visit.
C20_Witness ==
    /\ pc = "file"
    /\ iteration = 10
    /\ Len(fileQueue) >= 2
    /\ FilesOf(snap, 2) # {}
    /\ FilesOf(snap, 2) \subseteq processedDir

\* C21 (table content of a processed iteration): when main has gone through
\* the files of an iteration whose listing held exactly len(barcode_values)
\* files, none of which it skipped as already processed, the iteration's
\* table has exactly that many rows, one per file of the listing, in ascending
\* file-name order, and all the files are in the processed folder; and the
\* step that moves a file takes it out of the results folder.
C21_TableContent ==
    /\ []((/\ pc = "pdf"
           /\ Cardinality(FilesOf(snap, iteration)) = NumBarcodes
           /\ FilesOf(snap, iteration) \subseteq Range(all_data))
              => (/\ Len(tables[iteration]) = NumBarcodes
                  /\ Range(tables[iteration]) = FilesOf(snap, iteration)
                  /\ \A j, k \in 1..Len(tables[iteration]) :
                        j < k => tables[iteration][j][2]
                                    < tables[iteration][k][2]
                  /\ FilesOf(snap, iteration) \subseteq processedDir))
    /\ [][(pc = "move" /\ pc' = "file")
             => (/\ Head(fileQueue) \notin resultsDir'
                 /\ Head(fileQueue) \in processedDir')]_vars

\* C21 witness: main has gone through a listing of exactly len(barcode_values)
\* files, skipped none, and the table holds them all.
C21_Witness ==
    /\ pc = "pdf"
    /\ Cardinality(FilesOf(snap, iteration)) = NumBarcodes
    /\ FilesOf(snap, iteration) \subseteq Range(all_data)
    /\ Len(tables[iteration]) = NumBarcodes
    /\ FilesOf(snap, iteration) \cap resultsDir = {}

\* C22 (no cross-iteration accumulation): every row of the table of iteration
\* i comes from a file whose name carries the number i, and all_data is empty
\* when main turns to the files of an iteration.
C22_NoCrossIterationAccumulation ==
    /\ [](\A i \in Iters : \A k \in 1..Len(tables[i]) : tables[i][k][1] = i)
    /\ [][(pc = "iter" /\ pc' = "file") => (all_data' = <<>>)]_vars

\* C22 witness: in one poll main has processed iteration 2 and has written
\* the first row of the table of iteration 10.
C22_Witness ==
    /\ pc = "move"
    /\ iteration = 10
    /\ Len(tables[10]) = 1
    /\ FilesOf(snap, 2) # {}
    /\ FilesOf(snap, 2) \subseteq processedDir
    /\ tables[2] # <<>>

\* C27 (processed iterations survive): after the folders have been wiped at
\* the start of the run, no step makes the table of an iteration shorter.
C27_TablesSurvive ==
    [][(pc # "init")
          => (\A i \in Iters : Len(tables'[i]) >= Len(tables[i]))]_vars

\* ---- create_data_dict
\* the gene groups that have a field of their own, and the rows of each
FieldGroups == {"O_Type", "H_Type", "stx1", "stx2", "eae", "hylA", "aggR",
                "aaiC", "uidA"}
GroupRows(g) ==
    CASE g = "O_Type" -> RowsWith(df.rows, PatO)
      [] g = "H_Type" -> RowsWith(df.rows, PatH)
      [] g = "stx1" -> RowsWithAnyCase(df.rows, PatStx1)
      [] g = "stx2" -> RowsWithAnyCase(df.rows, PatStx2)
      [] g = "eae" -> RowsWith(df.rows, PatEae)
      [] g = "hylA" -> RowsWith(df.rows, PatEhxA)
      [] g = "aggR" -> RowsWith(df.rows, PatAggR)
      [] g = "aaiC" -> RowsWith(df.rows, PatAaiC)
      [] g = "uidA" -> RowsWith(df.rows, PatUidA)

\* C23: in the record create_data_dict returns, the field of a gene group
\* whose rows have at most one mapped read in all (or that has no row) is
\* '-', and a field that is not '-' reports a number greater than 1.
C23_ThresholdSentinel ==
    data_dict.status = "returned" =>
        \A g \in FieldGroups :
            /\ SumReads(GroupRows(g)) <= 1 => data_dict[g] = Dash
            /\ ~data_dict[g].dash => data_dict[g].n > 1
\* one group has a single read and shows '-', another shows a number
C23_Witness ==
    /\ data_dict.status = "returned"
    /\ \E g \in FieldGroups :
          SumReads(GroupRows(g)) = 1 /\ data_dict[g] = Dash
    /\ \E g \in FieldGroups : ~data_dict[g].dash

\* the totals per antigen code of a serotype group
CodeTotals(p) ==
    GroupTotals(df.rows,
                [j \in 1..Len(df.rows) |-> Extract(df.rows[j].gene_name, p)])
\* the field calls the best-supported code with that code's own total
CallsBest(field, p) ==
    IF \E g \in CodeTotals(p) : g[2] > 1
    THEN /\ ~field.dash
         /\ \E best \in CodeTotals(p) :
               /\ \A g \in CodeTotals(p) : g[2] <= best[2]
               /\ field.n = best[2]
               /\ \E j \in 1..Len(df.rows) :
                     /\ Extract(df.rows[j].gene_name, p) = best[1]
                     /\ AntigenLabel(df.rows[j].gene_name) = field.label
    ELSE field = Dash

\* C24: the O field (and the H field) of the returned record names the
\* antigen code with the largest read total together with that code's own
\* total when that total exceeds 1, and is '-' otherwise.
C24_SerotypeCall ==
    data_dict.status = "returned" =>
        /\ CallsBest(data_dict.O_Type, PatO)
        /\ CallsBest(data_dict.H_Type, PatH)

\* the groups other than the conserved markers that a row belongs to
InNamedGroup(r) ==
    \/ Contains(r.gene_name, PatO)
    \/ Contains(r.gene_name, PatH)
    \/ ContainsAnyCase(r.gene_name, PatStx1)
    \/ ContainsAnyCase(r.gene_name, PatStx2)
    \/ \E p \in {PatEae, PatEhxA, PatAggR, PatAaiC, PatUidA} :
          Contains(r.gene_name, p)
    \/ Contains(r.gene_name, PatCoverage)

\* C25: the k of 'k/325' is the number of rows that belong to no other group
\* and have more than one read of their own.
C25_ConservedCount ==
    data_dict.status = "returned" =>
        data_dict.GDCS =
            Cardinality({j \in 1..Len(df.rows) :
                            /\ ~InNamedGroup(df.rows[j])
                            /\ df.rows[j].number_of_reads_mapped > 1})

\* ---- create_pdf_report
\* C26 (no leftover temporary file): once create_pdf_report has written the
\* temporary html file, every way it ends (conversion done, conversion exited
\* non-zero, converter not launched) leaves the reports folder without it.
C26_NoLeftoverTemp ==
    /\ [][(pc = "convert" /\ pc' # "convert") => ~temp_html']_vars
    /\ [](temp_html => pc = "convert")
\* the call has returned after a conversion that failed: the report is not
\* the one of this table, and the temporary file is gone
C26_Witness ==
    /\ pc = "wcheck"
    /\ tables[iteration] # <<>>
    /\ report # [iter |-> iteration, rows |-> tables[iteration]]
    /\ ~temp_html

\* ---- the kill loop
\* C28 (best-effort termination): a confirmed cancellation calls os.kill with
\* every pid of pid_store, every pid of pid_store whose process is alive gets
\* the signal whatever dead pids stand before it, and the handler does not
\* raise, the first time and every later time.
C28_BestEffortKill ==
    /\ [][(cancels' # cancels)
            => (/\ kill_tried' = Range(pid_store)
                /\ Range(pid_store) \cap alive \subseteq signalled'
                /\ ~kill_raised')]_vars
    /\ [](~kill_raised)
\* a second cancellation has run over a list whose first pid was dead from
\* the start and whose last pid got the signal
C28_Witness ==
    /\ cancels = 2
    /\ ~kill_raised
    /\ Len(pid_store) >= 2
    /\ pid_store[1] \notin signalled
    /\ pid_store[Len(pid_store)] \in signalled
    /\ kill_tried = Range(pid_store)

\* ---- validate_headers
\* C29 (missing-field report is complete): the message validate_headers
\* returns names exactly the required keys that the record lacks, all of
\* them, and it returns None exactly when the record lacks none.
C29_MissingFieldsComplete ==
    header_error.status = "returned" =>
        /\ Range(header_error.names) = Range(necessary_headers) \ config_dict
        /\ (header_error = None)
              <=> (Range(necessary_headers) \subseteq config_dict)
\* a record that lacks three required keys and holds a key of its own
C29_Witness ==
    /\ header_error.status = "returned"
    /\ Len(header_error.names) = 3
    /\ "extra" \in config_dict

\* ---- validate_seqid_entries
\* the SEQID of row k: its cell without the white space at the end
SeqidOfRow(k) == rstrip(table[k].seqid)
\* four digits, '-MIN-', four digits, and nothing else
WellFormed(s) ==
    /\ Len(s) = 13
    /\ \A k \in (1..4) \cup (10..13) : IsDigit(s[k])
    /\ SubSeq(s, 5, 9) = Min

\* C30 (sample-identifier validation): validate_seqid_entries returns True
\* exactly when the SEQID of every row is non-empty and well-formed and no
\* two rows have the same SEQID; and then sequence_info has one entry per
\* row, the row's barcode with the row's SEQID.
C30_SeqidValidation ==
    seqids_valid # "none" =>
        /\ (seqids_valid = "True")
              <=> (/\ \A k \in 1..Len(table) :
                         SeqidOfRow(k) # <<>> /\ WellFormed(SeqidOfRow(k))
                   /\ \A j, k \in 1..Len(table) :
                         j # k => SeqidOfRow(j) # SeqidOfRow(k))
        /\ (seqids_valid = "True")
              => (/\ Len(sequence_info) = Len(table)
                  /\ \A k \in 1..Len(table) :
                        sequence_info[k] = [barcode |-> table[k].barcode,
                                            SEQID |-> SeqidOfRow(k)])
\* a full table of different well-formed identifiers was accepted, one of
\* them typed with a blank after it
C30_Witness ==
    /\ seqids_valid = "True"
    /\ Len(table) = NumBarcodes
    /\ Len(sequence_info) = NumBarcodes
    /\ \E k \in 1..Len(table) : table[k].seqid # SeqidOfRow(k)

\* ---- methods.main and MainWindow, further claims
\* C33 (no orphaned worker): whenever main has stopped, by returning or by
\* raising, the worker process it launched has exited or has been sent a
\* termination request.
C33_NoOrphanedWorker ==
    Stopped => (worker \in {"none", "zero", "nonzero"} \/ termSent)

\* C34 (the report reflects the newest data): no step of main replaces the
\* report document by one made from the table of a lower-numbered iteration.
C34_ReportIsNewest == [][report'.iter >= report.iter]_vars

\* C38 (tracked pids belong to the current run): pid_store holds nothing but
\* the pid of the worker process that the current run launched.
C38_PidsOfCurrentRun == Range(pid_store) \subseteq {runs}

\* ---- visualize_data
\* what the precedence of the styling rule gives a value: neutral to a missing
\* value or '-', muted to 'k/N' with k below 320, muted to a numeric string
\* below 7.5, highlighted to everything else; a 'k/N' string is one that has
\* an integer before its first '/'
IsFraction(t) == Contains(t, <<"/">>) /\ IsInt(BeforeFirst(t, "/"))
IsNumeric(t) == isdigit(RemoveFirst(t, "."))
RuleStyle(val) ==
    IF val.kind = "null" \/ val = Str(<<"-">>) THEN White
    ELSE IF val.kind = "str" /\ IsFraction(val.text)
            /\ IntValue(BeforeFirst(val.text, "/")) < 320 THEN Grey
    ELSE IF val.kind = "str" /\ IsNumeric(val.text)
            /\ BelowDepth(val.text) THEN Grey
    ELSE Blue

\* C31 (styling is a function of the value, with fixed precedence): every
\* cell of a rendered table gets the style the rule gives the value it shows:
\* white for a missing value or '-', else grey for 'k/N' with k < 320, else
\* grey for a numeric string below 7.5, else blue.
C31_StyleByValue ==
    cell_style # NotCalled => cell_style = Styled(RuleStyle(Shown(cell)))

\* C32 (the identifier column is neutral): in a rendered table the cells of
\* the identifier column, SEQID, have the neutral style whatever they hold.
C32_IdentifierNeutral ==
    (cell_style # NotCalled /\ cell.column = "SEQID") =>
        cell_style = Styled(White)

\* ---- HoldPlace
\* the calls of copy_image so far are the first images of the folder, in
\* sorted order, each once
CopiedInOrder ==
    /\ Len(copied) <= Cardinality(image_dir)
    /\ copied = SubSeq(SortedImages(image_dir), 1, Len(copied))

\* C39 (the placeholder worker completes): once locate_image has found the
\* sorted list of the image directory equal to the list of the images copied,
\* main_loop comes to its end although terminate() is not called, and
\* copy_image is called once for each image, in sorted order.
C39_StopsWhenAllCopied ==
    /\ (returned_complete /\ ~hold_complete) ~>
           (hold_pc \in {"stopped", "raised"} \/ hold_complete)
    /\ []CopiedInOrder

\* ---- the display loop of run_clicker
PageIters == {pages[k].iter : k \in 1..Len(pages)}
TableIters == {i \in Iters : tables[i] # <<>>}

\* C35 (every table is shown exactly once): no table has two pages, and when
\* the display loop has counted every table of the folder and has added what
\* it found, every table has a page.
C35_ShownExactlyOnce ==
    /\ \A j, k \in 1..Len(pages) : pages[j].iter = pages[k].iter => j = k
    /\ (/\ addQueue = <<>>
        /\ number_of_images = Cardinality(TableIters)) =>
           PageIters = TableIters

\* main has written the table and the report of iteration i and is not
\* processing files
FullyProcessed(i) ==
    /\ current_iteration = i
    /\ pc \in {"wcheck", "sleep", "poll", "iter", "returned"}

\* C36 (displayed pages are complete): the page of an iteration that main has
\* fully processed holds the final table of that iteration.
C36_PagesComplete ==
    \A k \in 1..Len(pages) :
       FullyProcessed(pages[k].iter) => pages[k].rows = tables[pages[k].iter]

\* C37 (the display loop ends with the run): once main has returned or raised
\* while the display loop runs, the loop ends.
C37_LoopEndsWithRun ==
    (pc \in {"returned", "raised"} /\ gui = "looping") ~> (gui # "looping")

====
